---- MODULE Spec2Model ----
(***************************************************************************)
(* The article data service (src/src/services/articleService.ts) over the  *)
(* remote document store, with the page code that calls it.                *)
(*                                                                         *)
(* JavaScript values.  A string is the sequence of its characters.  The    *)
(* values undefined and null are one value, Undefined, which is no string. *)
(* An object is a function from its property names; a property that is not *)
(* in the domain reads as Undefined.                                       *)
(***************************************************************************)
EXTENDS Integers, Sequences, FiniteSets, TLC

Undefined == <<"undefined">>

\* o.f
Prop(o, f) == IF f \in DOMAIN o THEN o[f] ELSE Undefined

\* the truthiness of a string-or-undefined value: '' and undefined are falsy
Truthy(v) == v # Undefined /\ v # <<>>

\* a || b on string-or-undefined values
OrElse(a, b) == IF Truthy(a) THEN a ELSE b

Min(a, b) == IF a < b THEN a ELSE b

Max(a, b) == IF a > b THEN a ELSE b

\* String.prototype.trim, callers: HomePage.loadArticles, HomePage.handleSearch
RECURSIVE TrimStart(_)
TrimStart(s) == IF s # <<>> /\ Head(s) = " " THEN TrimStart(Tail(s)) ELSE s

RECURSIVE TrimEnd(_)
TrimEnd(s) ==
  IF s # <<>> /\ s[Len(s)] = " " THEN TrimEnd(SubSeq(s, 1, Len(s) - 1)) ELSE s

Trim(s) == TrimEnd(TrimStart(s))

\* s contains sub as a substring (the store's {contains: value} operator)
Contains(s, sub) ==
  \E i \in 0..(Len(s) - Len(sub)) : SubSeq(s, i + 1, i + Len(sub)) = sub

(***************************************************************************)
(* JSON.  JSON.stringify of an array of strings writes the text            *)
(* ["t1","t2"], escaping the characters " and \ of each string with a      *)
(* backslash.  JSON.parse reads a text back into a value, or throws.       *)
(* A parsed value is a record: kind is "array", "string", "number",        *)
(* "null", "object" or (no value, the parse threw) "error"; val holds the  *)
(* elements of an array and the string of a string.                        *)
(***************************************************************************)
Quote == "\""

Backslash == "\\"

RECURSIVE EscapeChars(_)
EscapeChars(s) ==
  IF s = <<>> THEN <<>>
  ELSE IF Head(s) \in {Quote, Backslash}
       THEN <<Backslash, Head(s)>> \o EscapeChars(Tail(s))
       ELSE <<Head(s)>> \o EscapeChars(Tail(s))

QuoteString(s) == <<Quote>> \o EscapeChars(s) \o <<Quote>>

RECURSIVE JoinQuoted(_)
JoinQuoted(items) ==
  IF items = <<>> THEN <<>>
  ELSE IF Len(items) = 1 THEN QuoteString(items[1])
       ELSE QuoteString(items[1]) \o <<",">> \o JoinQuoted(Tail(items))

\* JSON.stringify(items), items an array of strings
JSONStringify(items) == <<"[">> \o JoinQuoted(items) \o <<"]">>

JArray(items) == [kind |-> "array", val |-> items]

JError == [kind |-> "error", val |-> <<>>]

DigitChars == {"0", "1", "2", "3", "4", "5", "6", "7", "8", "9"}

\* Reads a JSON string literal that starts at t[i] (an opening quote).
\* Result: [ok, str, next]: the string read and the index after its closing quote.
RECURSIVE ReadStringBody(_, _, _)
ReadStringBody(t, i, acc) ==
  IF i > Len(t) THEN [ok |-> FALSE, str |-> <<>>, next |-> i]
  ELSE IF t[i] = Quote THEN [ok |-> TRUE, str |-> acc, next |-> i + 1]
  ELSE IF t[i] = Backslash
       THEN IF i + 1 <= Len(t) /\ t[i + 1] \in {Quote, Backslash}
            THEN ReadStringBody(t, i + 2, Append(acc, t[i + 1]))
            ELSE [ok |-> FALSE, str |-> <<>>, next |-> i]
       ELSE ReadStringBody(t, i + 1, Append(acc, t[i]))

ReadString(t, i) ==
  IF i <= Len(t) /\ t[i] = Quote THEN ReadStringBody(t, i + 1, <<>>)
  ELSE [ok |-> FALSE, str |-> <<>>, next |-> i]

\* Reads the elements of an array of strings after the opening bracket:
\* t[i] starts an element.  Result: the elements, or error.
RECURSIVE ReadElements(_, _, _)
ReadElements(t, i, acc) ==
  LET r == ReadString(t, i) IN
  IF ~r.ok THEN JError
  ELSE IF r.next = Len(t) /\ t[r.next] = "]" THEN JArray(Append(acc, r.str))
  ELSE IF r.next < Len(t) /\ t[r.next] = ","
       THEN ReadElements(t, r.next + 1, Append(acc, r.str))
       ELSE JError

\* JSON.parse(t) for the texts the model uses: arrays of strings, a string,
\* a number, null, the empty object; every other text is a SyntaxError.
JSONParse(t) ==
  IF t = <<"[", "]">> THEN JArray(<<>>)
  ELSE IF t # <<>> /\ t[1] = "[" THEN ReadElements(t, 2, <<>>)
  ELSE IF t # <<>> /\ t[1] = Quote
       THEN LET r == ReadString(t, 1) IN
            IF r.ok /\ r.next = Len(t) + 1
            THEN [kind |-> "string", val |-> <<r.str>>] ELSE JError
  ELSE IF t = <<"n", "u", "l", "l">> THEN [kind |-> "null", val |-> <<>>]
  ELSE IF t = <<"{", "}">> THEN [kind |-> "object", val |-> <<>>]
  ELSE IF t # <<>> /\ (\A i \in 1..Len(t) : t[i] \in DigitChars)
          /\ (Len(t) = 1 \/ t[1] # "0")
       THEN [kind |-> "number", val |-> <<t>>]
       ELSE JError

(***************************************************************************)
(* The remote document store.  It is not code of this repository: the      *)
(* model follows the contract the service relies on (list with where,      *)
(* orderBy and limit; create; update; delete).  A stored article is a      *)
(* record over ArticleFields.  The store hands rows out under camelCase or *)
(* under snake_case property names (rowShape); transformArticle reads both.*)
(***************************************************************************)
ArticleFields ==
  {"id", "title", "content", "excerpt", "author", "category", "categoryName",
   "categoryColor", "featuredImage", "publishedAt", "readTime", "isAggregated",
   "sourceName", "sourceUrl", "tags", "userId", "createdAt", "updatedAt"}

\* the row the store hands out for a stored article: under the camelCase
\* names the service writes, or under their snake_case forms
RowOut(rec, shape) ==
  IF shape = "camel" THEN rec
  ELSE [id |-> rec.id, title |-> rec.title, content |-> rec.content,
        excerpt |-> rec.excerpt, author |-> rec.author, category |-> rec.category,
        category_name |-> rec.categoryName, category_color |-> rec.categoryColor,
        featured_image |-> rec.featuredImage, published_at |-> rec.publishedAt,
        read_time |-> rec.readTime, is_aggregated |-> rec.isAggregated,
        source_name |-> rec.sourceName, source_url |-> rec.sourceUrl,
        tags |-> rec.tags, user_id |-> rec.userId, created_at |-> rec.createdAt,
        updated_at |-> rec.updatedAt]

\* One condition of a where clause against a stored article.  A condition is
\* [op |-> "eq" | "contains" | "not", field, value] or [op |-> "OR", of |-> conditions].
Holds(rec, c) ==
  CASE c.op = "eq" -> rec[c.field] = c.value
    [] c.op = "not" -> rec[c.field] # c.value
    [] c.op = "contains" -> rec[c.field] # Undefined /\ Contains(rec[c.field], c.value)
    [] c.op = "OR" ->
         \E i \in 1..Len(c.of) :
           /\ c.of[i].op = "contains"
           /\ rec[c.of[i].field] # Undefined
           /\ Contains(rec[c.of[i].field], c.of[i].value)

\* where is {} (written <<>>: every row matches) or {AND: conditions};
\* a query without a where matches every row too
Matches(rec, where) == \A i \in 1..Len(where) : Holds(rec, where[i])

\* publishedAt values order as strings; the dates of the model are one digit long
DateRank(d) == CHOOSE n \in 0..9 : ToString(n) = d[1]

\* the sequences that hold every element of S once
Orderings(S) ==
  {s \in [1..Cardinality(S) -> S] : \A i, j \in 1..Cardinality(S) : i # j => s[i] # s[j]}

\* list({where, orderBy: {publishedAt: 'desc'}, limit}): the rows that match,
\* latest publishedAt first, cut at limit.  The order of rows with the same
\* publishedAt is the store's choice, and so is the whole order when the query
\* has no orderBy.  limit = 0 stands for a query without limit.  A query
\* with an offset skips that many rows first.
ListResults(articles, q, shape) ==
  LET hit == {r \in articles : Matches(r, q.where)}
      sorted == {s \in Orderings(hit) :
                   q.orderBy = "publishedAt desc" =>
                     \A i \in 1..(Len(s) - 1) :
                       DateRank(s[i].publishedAt) >= DateRank(s[i + 1].publishedAt)}
      offset == IF "offset" \in DOMAIN q THEN q.offset ELSE 0
  IN {[i \in 1..(IF q.limit = 0 THEN Max(Len(s) - offset, 0)
                 ELSE Max(Min(q.limit, Len(s) - offset), 0)) |->
         RowOut(s[i + offset], shape)] : s \in sorted}

\* create(record): the store keeps the record; ids are the keys of the table
StoreCreate(articles, rec) == articles \cup {rec}

\* update(id, partialRecord): the properties given replace those of the row
StoreUpdate(articles, id, data) ==
  {IF r.id = id
   THEN [f \in ArticleFields |-> IF f \in DOMAIN data THEN data[f] ELSE r[f]]
   ELSE r : r \in articles}

\* delete(id)
StoreDelete(articles, id) == {r \in articles : r.id # id}

(***************************************************************************)
(* The service.  A call's outcome is [threw, val]: the value returned, or  *)
(* an exception thrown to the caller.                                      *)
(***************************************************************************)
Returned(v) == [threw |-> FALSE, val |-> v]

Thrown == [threw |-> TRUE]

\* try { body } catch { return fallback }
TryCatch(body, fallback) == IF body.threw THEN Returned(fallback) ELSE body

Null == [null |-> TRUE]

EmptyArrayText == <<"[", "]">>

DefaultColor == <<"#", "2", "5", "6", "3", "e", "b">>

DefaultReadTime == <<"5", " ", "m", "i", "n", " ", "r", "e", "a", "d">>

DefaultUserId == <<"u", "s", "e", "r">>

AllCategories == <<"a", "l", "l">>

DefaultLimit == 20

\* Number(v) for a one-digit string, NaN (no number: the empty set) for undefined
NumberOf(v) == IF Len(v) = 1 /\ v[1] \in DigitChars THEN {DateRank(v)} ELSE {}

\* parseTags(tagsString)
ParseTags(tagsString) ==
  LET v == JSONParse(OrElse(tagsString, EmptyArrayText))
  IN IF v.kind = "error" THEN JArray(<<>>) ELSE v

\* transformArticle(dbArticle), called with the given this: "service" or, when
\* the method is passed on as a bare function, "undefined".  The properties of
\* the literal are evaluated in order; this.parseTags throws the TypeError on
\* an undefined this.
TransformArticle(this, dbArticle) ==
  IF this = "undefined" THEN Thrown
  ELSE Returned(
    [id |-> Prop(dbArticle, "id"),
     title |-> Prop(dbArticle, "title"),
     content |-> Prop(dbArticle, "content"),
     excerpt |-> Prop(dbArticle, "excerpt"),
     author |-> Prop(dbArticle, "author"),
     category |-> Prop(dbArticle, "category"),
     categoryName |-> OrElse(Prop(dbArticle, "categoryName"), Prop(dbArticle, "category_name")),
     categoryColor |-> OrElse(Prop(dbArticle, "categoryColor"), Prop(dbArticle, "category_color")),
     featuredImage |-> OrElse(Prop(dbArticle, "featuredImage"), Prop(dbArticle, "featured_image")),
     publishedAt |-> OrElse(Prop(dbArticle, "publishedAt"), Prop(dbArticle, "published_at")),
     readTime |-> OrElse(Prop(dbArticle, "readTime"), Prop(dbArticle, "read_time")),
     isAggregated |->
       \E n \in NumberOf(OrElse(Prop(dbArticle, "isAggregated"), Prop(dbArticle, "is_aggregated"))) : n > 0,
     sourceName |-> OrElse(Prop(dbArticle, "sourceName"), Prop(dbArticle, "source_name")),
     sourceUrl |-> OrElse(Prop(dbArticle, "sourceUrl"), Prop(dbArticle, "source_url")),
     tags |-> ParseTags(Prop(dbArticle, "tags")),
     userId |-> OrElse(Prop(dbArticle, "userId"), Prop(dbArticle, "user_id")),
     createdAt |-> OrElse(Prop(dbArticle, "createdAt"), Prop(dbArticle, "created_at")),
     updatedAt |-> OrElse(Prop(dbArticle, "updatedAt"), Prop(dbArticle, "updated_at"))])

\* articles.map(this.transformArticle): Array.prototype.map calls the function
\* it is given with this undefined, once per element
MapTransform(rows) ==
  IF \E i \in 1..Len(rows) : TransformArticle("undefined", rows[i]).threw
  THEN Thrown
  ELSE Returned([i \in 1..Len(rows) |-> TransformArticle("undefined", rows[i]).val])

\* the OR of the search filter
SearchCondition(search) ==
  [op |-> "OR",
   of |-> <<[op |-> "contains", field |-> "title", value |-> search],
            [op |-> "contains", field |-> "excerpt", value |-> search],
            [op |-> "contains", field |-> "author", value |-> search],
            [op |-> "contains", field |-> "tags", value |-> search]>>]

\* whereConditions without the aggregated filter
WhereConditionsNoFlag(filters) ==
  LET category == Prop(filters, "category")
      search == Prop(filters, "search")
  IN (IF Truthy(category) /\ category # AllCategories
      THEN <<[op |-> "eq", field |-> "category", value |-> category]>> ELSE <<>>)
     \o (IF Truthy(search) THEN <<SearchCondition(search)>> ELSE <<>>)

\* whereConditions with a search filter that leaves the tags out
WhereConditionsNoTags(filters) ==
  LET category == Prop(filters, "category")
      search == Prop(filters, "search")
  IN (IF Truthy(category) /\ category # AllCategories
      THEN <<[op |-> "eq", field |-> "category", value |-> category]>> ELSE <<>>)
     \o
     (IF Truthy(search)
      THEN <<[op |-> "OR",
              of |-> <<[op |-> "contains", field |-> "title", value |-> search],
                       [op |-> "contains", field |-> "excerpt", value |-> search],
                       [op |-> "contains", field |-> "author", value |-> search]>>]>>
      ELSE <<>>)
     \o
     (IF "isAggregated" \in DOMAIN filters
      THEN <<[op |-> "eq", field |-> "isAggregated",
              value |-> IF filters.isAggregated THEN <<"1">> ELSE <<"0">>]>>
      ELSE <<>>)

\* getArticles: the whereConditions it composes
WhereConditions(filters) ==
  LET category == Prop(filters, "category")
      search == Prop(filters, "search")
  IN (IF Truthy(category) /\ category # AllCategories
      THEN <<[op |-> "eq", field |-> "category", value |-> category]>> ELSE <<>>)
     \o
     (IF Truthy(search) THEN <<SearchCondition(search)>> ELSE <<>>)
     \o
     (IF "isAggregated" \in DOMAIN filters
      THEN <<[op |-> "eq", field |-> "isAggregated",
              value |-> IF filters.isAggregated THEN <<"1">> ELSE <<"0">>]>>
      ELSE <<>>)

\* the list call with the offset of the filters handed on to the store
GetArticlesQueryWithOffset(filters) ==
  [where |-> WhereConditions(filters),
   orderBy |-> "publishedAt desc",
   limit |-> IF "limit" \in DOMAIN filters THEN filters.limit ELSE DefaultLimit,
   offset |-> IF "offset" \in DOMAIN filters THEN filters.offset ELSE 0]

\* getArticles: the list call it makes
GetArticlesQuery(filters) ==
  [where |-> WhereConditions(filters),
   orderBy |-> "publishedAt desc",
   limit |-> IF "limit" \in DOMAIN filters THEN filters.limit ELSE DefaultLimit]

\* getArticles: its outcome on the store's response
GetArticlesOutcome(resp) ==
  TryCatch(IF resp.ok THEN MapTransform(resp.rows) ELSE Thrown, <<>>)

\* getArticleById's list call without the condition on the id
GetArticleByIdQueryAny(id) == [where |-> <<>>, orderBy |-> "none", limit |-> 1]

\* getArticleById
GetArticleByIdQuery(id) ==
  [where |-> <<[op |-> "eq", field |-> "id", value |-> id]>>, orderBy |-> "none", limit |-> 1]

GetArticleByIdOutcome(resp) ==
  TryCatch(IF ~resp.ok THEN Thrown
           ELSE IF Len(resp.rows) = 0 THEN Returned(Null)
           ELSE TransformArticle("service", resp.rows[1]),
           Null)

\* getFeaturedArticle's list call without its orderBy
GetFeaturedArticleQueryUnordered == [where |-> <<>>, orderBy |-> "none", limit |-> 1]

\* getFeaturedArticle
GetFeaturedArticleQuery == [where |-> <<>>, orderBy |-> "publishedAt desc", limit |-> 1]

GetFeaturedArticleOutcome(resp) ==
  TryCatch(IF ~resp.ok THEN Thrown
           ELSE IF Len(resp.rows) = 0 THEN Returned(Null)
           ELSE TransformArticle("service", resp.rows[1]),
           Null)

\* getTrendingArticles(limit)
GetTrendingArticlesQuery(limit) ==
  [where |-> <<>>, orderBy |-> "publishedAt desc", limit |-> limit + 1]

\* articles.slice(1)
Slice1(rows) == IF rows = <<>> THEN <<>> ELSE Tail(rows)

GetTrendingArticlesOutcome(resp) ==
  TryCatch(IF resp.ok THEN MapTransform(Slice1(resp.rows)) ELSE Thrown, <<>>)

\* getRelatedArticles(articleId, category, limit)
GetRelatedArticlesQuery(articleId, category, limit) ==
  [where |-> <<[op |-> "eq", field |-> "category", value |-> category],
               [op |-> "not", field |-> "id", value |-> articleId]>>,
   orderBy |-> "publishedAt desc",
   limit |-> limit]

GetRelatedArticlesOutcome(resp) ==
  TryCatch(IF resp.ok THEN MapTransform(resp.rows) ELSE Thrown, <<>>)

\* The categories table, as list({orderBy: {name: 'asc'}}) hands it out.
CategoryRows(shape) ==
  LET ai == [id |-> <<"a", "i">>, name |-> <<"A", "I">>, color |-> <<"#", "1", "1", "1">>,
             description |-> <<>>]
      web == [id |-> <<"w", "e", "b">>, name |-> <<"W", "e", "b">>, color |-> <<"#", "2", "2", "2">>,
              description |-> <<"w">>]
      owner == IF shape = "camel"
               THEN [userId |-> DefaultUserId, createdAt |-> <<"0", "T", "0">>]
               ELSE [user_id |-> DefaultUserId, created_at |-> <<"0", "T", "0">>]
  IN <<ai @@ owner, web @@ owner>>

\* getCategories: its outcome on the store's response
GetCategoriesOutcome(resp) ==
  TryCatch(IF ~resp.ok THEN Thrown
           ELSE Returned([i \in 1..Len(resp.rows) |->
                  [id |-> Prop(resp.rows[i], "id"),
                   name |-> Prop(resp.rows[i], "name"),
                   color |-> Prop(resp.rows[i], "color"),
                   description |-> OrElse(Prop(resp.rows[i], "description"), <<>>),
                   userId |-> OrElse(Prop(resp.rows[i], "userId"), Prop(resp.rows[i], "user_id")),
                   createdAt |-> OrElse(Prop(resp.rows[i], "createdAt"), Prop(resp.rows[i], "created_at"))]]),
           <<>>)

\* The clock: instant t of day (t + 1) \div 2.  new Date().toISOString()
IsoString(t) == <<ToString((t + 1) \div 2), "T", ToString(t)>>

\* s.split('T')[0]
RECURSIVE SplitT0(_)
SplitT0(s) == IF s = <<>> \/ Head(s) = "T" THEN <<>> ELSE <<Head(s)>> \o SplitT0(Tail(s))

ArticlePrefix == <<"a", "r", "t", "i", "c", "l", "e", "_">>

\* Math.random().toString(36).substr(2, 9): the r-th suffix the generator can give
RandomSuffix(r) == <<"r", ToString(r)>>

\* `article_${Date.now()}_${suffix}`
NewId(t, r) == ArticlePrefix \o <<ToString(t), "_">> \o RandomSuffix(r)

\* the record with the empty string as the default of categoryColor and readTime
CreateRecordPlainDefaults(articleData, id, t) ==
  [id |-> id,
   title |-> OrElse(Prop(articleData, "title"), <<>>),
   content |-> OrElse(Prop(articleData, "content"), <<>>),
   excerpt |-> OrElse(Prop(articleData, "excerpt"), <<>>),
   author |-> OrElse(Prop(articleData, "author"), <<>>),
   category |-> OrElse(Prop(articleData, "category"), <<>>),
   categoryName |-> OrElse(Prop(articleData, "categoryName"), <<>>),
   categoryColor |-> OrElse(Prop(articleData, "categoryColor"), <<>>),
   featuredImage |-> OrElse(Prop(articleData, "featuredImage"), <<>>),
   publishedAt |-> OrElse(Prop(articleData, "publishedAt"), SplitT0(IsoString(t))),
   readTime |-> OrElse(Prop(articleData, "readTime"), <<>>),
   isAggregated |->
     IF "isAggregated" \in DOMAIN articleData /\ articleData.isAggregated
     THEN <<"1">> ELSE <<"0">>,
   sourceName |-> OrElse(Prop(articleData, "sourceName"), Undefined),
   sourceUrl |-> OrElse(Prop(articleData, "sourceUrl"), Undefined),
   tags |-> JSONStringify(IF "tags" \in DOMAIN articleData THEN articleData.tags ELSE <<>>),
   userId |-> OrElse(Prop(articleData, "userId"), DefaultUserId),
   createdAt |-> IsoString(t),
   updatedAt |-> IsoString(t)]

\* createArticle: the record it hands to create
CreateRecord(articleData, id, t) ==
  [id |-> id,
   title |-> OrElse(Prop(articleData, "title"), <<>>),
   content |-> OrElse(Prop(articleData, "content"), <<>>),
   excerpt |-> OrElse(Prop(articleData, "excerpt"), <<>>),
   author |-> OrElse(Prop(articleData, "author"), <<>>),
   category |-> OrElse(Prop(articleData, "category"), <<>>),
   categoryName |-> OrElse(Prop(articleData, "categoryName"), <<>>),
   categoryColor |-> OrElse(Prop(articleData, "categoryColor"), DefaultColor),
   featuredImage |-> OrElse(Prop(articleData, "featuredImage"), <<>>),
   publishedAt |-> OrElse(Prop(articleData, "publishedAt"), SplitT0(IsoString(t))),
   readTime |-> OrElse(Prop(articleData, "readTime"), DefaultReadTime),
   isAggregated |->
     IF "isAggregated" \in DOMAIN articleData /\ articleData.isAggregated
     THEN <<"1">> ELSE <<"0">>,
   sourceName |-> OrElse(Prop(articleData, "sourceName"), Undefined),
   sourceUrl |-> OrElse(Prop(articleData, "sourceUrl"), Undefined),
   tags |-> JSONStringify(IF "tags" \in DOMAIN articleData THEN articleData.tags ELSE <<>>),
   userId |-> OrElse(Prop(articleData, "userId"), DefaultUserId),
   createdAt |-> IsoString(t),
   updatedAt |-> IsoString(t)]

\* createArticle: its outcome on the store's response (the created row)
CreateArticleOutcome(resp) ==
  TryCatch(IF resp.ok THEN TransformArticle("service", resp.rows[1]) ELSE Thrown, Null)

\* the string properties updateArticle copies when they are truthy
UpdatableStrings ==
  {"title", "content", "excerpt", "author", "category", "categoryName", "categoryColor",
   "featuredImage", "publishedAt", "readTime", "sourceName", "sourceUrl"}

\* updateData with the title copied whenever it is given, the empty title too
UpdateDataTitleGiven(articleData, t) ==
  [f \in {"updatedAt"}
         \cup {g \in UpdatableStrings : Truthy(Prop(articleData, g))}
         \cup (IF "title" \in DOMAIN articleData THEN {"title"} ELSE {})
         \cup (IF "isAggregated" \in DOMAIN articleData THEN {"isAggregated"} ELSE {})
         \cup (IF "tags" \in DOMAIN articleData THEN {"tags"} ELSE {})
   |-> CASE f = "updatedAt" -> IsoString(t)
         [] f = "isAggregated" -> IF articleData.isAggregated THEN <<"1">> ELSE <<"0">>
         [] f = "tags" -> JSONStringify(articleData.tags)
         [] OTHER -> articleData[f]]

\* updateData with the excerpt copied without the test of its value
UpdateDataExcerptUnguarded(articleData, t) ==
  [f \in {"updatedAt", "excerpt"}
         \cup {g \in UpdatableStrings : Truthy(Prop(articleData, g))}
         \cup (IF "isAggregated" \in DOMAIN articleData THEN {"isAggregated"} ELSE {})
         \cup (IF "tags" \in DOMAIN articleData THEN {"tags"} ELSE {})
   |-> CASE f = "updatedAt" -> IsoString(t)
         [] f = "isAggregated" -> IF articleData.isAggregated THEN <<"1">> ELSE <<"0">>
         [] f = "tags" -> JSONStringify(articleData.tags)
         [] OTHER -> Prop(articleData, f)]

\* updateData with updatedAt set only when the caller supplies a property
UpdateDataStampIfGiven(articleData, t) ==
  [f \in (IF DOMAIN articleData = {} THEN {} ELSE {"updatedAt"})
         \cup {g \in UpdatableStrings : Truthy(Prop(articleData, g))}
         \cup (IF "isAggregated" \in DOMAIN articleData THEN {"isAggregated"} ELSE {})
         \cup (IF "tags" \in DOMAIN articleData THEN {"tags"} ELSE {})
   |-> CASE f = "updatedAt" -> IsoString(t)
         [] f = "isAggregated" -> IF articleData.isAggregated THEN <<"1">> ELSE <<"0">>
         [] f = "tags" -> JSONStringify(articleData.tags)
         [] OTHER -> articleData[f]]

\* updateData with the userId copied as well when it is truthy
UpdateDataWithUserId(articleData, t) ==
  [f \in {"updatedAt"}
         \cup {g \in UpdatableStrings \cup {"userId"} : Truthy(Prop(articleData, g))}
         \cup (IF "isAggregated" \in DOMAIN articleData THEN {"isAggregated"} ELSE {})
         \cup (IF "tags" \in DOMAIN articleData THEN {"tags"} ELSE {})
   |-> CASE f = "updatedAt" -> IsoString(t)
         [] f = "isAggregated" -> IF articleData.isAggregated THEN <<"1">> ELSE <<"0">>
         [] f = "tags" -> JSONStringify(articleData.tags)
         [] OTHER -> articleData[f]]

\* updateArticle: the updateData it hands to update
UpdateData(articleData, t) ==
  [f \in {"updatedAt"}
         \cup {g \in UpdatableStrings : Truthy(Prop(articleData, g))}
         \cup (IF "isAggregated" \in DOMAIN articleData THEN {"isAggregated"} ELSE {})
         \cup (IF "tags" \in DOMAIN articleData THEN {"tags"} ELSE {})
   |-> CASE f = "updatedAt" -> IsoString(t)
         [] f = "isAggregated" -> IF articleData.isAggregated THEN <<"1">> ELSE <<"0">>
         [] f = "tags" -> JSONStringify(articleData.tags)
         [] OTHER -> articleData[f]]

\* updateArticle: its outcome on the responses to update and to the list call
\* of the getArticleById that follows it
UpdateArticleOutcome(updated, resp) ==
  TryCatch(IF updated THEN GetArticleByIdOutcome(resp) ELSE Thrown, Null)

\* deleteArticle without its try and catch
DeleteArticleOutcomeUncaught(deleted) == IF deleted THEN Returned(TRUE) ELSE Thrown

\* deleteArticle returning true from its catch block too
DeleteArticleOutcomeAlwaysTrue(deleted) ==
  TryCatch(IF deleted THEN Returned(TRUE) ELSE Thrown, TRUE)

\* deleteArticle: its outcome on the response to delete
DeleteArticleOutcome(deleted) ==
  TryCatch(IF deleted THEN Returned(TRUE) ELSE Thrown, FALSE)

(***************************************************************************)
(* Bounds and the inputs of the calls.                                     *)
(***************************************************************************)
\* the writes (create, update, delete) of one behaviour
MaxWrites == 2

\* the instants of the clock
MaxNow == 2

\* the suffixes the random generator can give
MaxRand == 1

Ai == <<"a", "i">>

Web == <<"w", "e", "b">>

\* a partial article with every property given and truthy
FullArticle ==
  [title |-> <<"a">>, content |-> <<"a", " ", "b">>, excerpt |-> <<"b">>, author |-> <<"a", "b">>,
   category |-> Ai, categoryName |-> <<"A", "I">>, categoryColor |-> <<"#", "1", "1", "1">>,
   featuredImage |-> <<"i">>, publishedAt |-> <<"1">>, readTime |-> <<"1", "m">>,
   isAggregated |-> TRUE, sourceName |-> <<"s">>, sourceUrl |-> <<"u">>,
   tags |-> <<<<"x">>, <<"y", Quote>>>>, userId |-> <<"a", "d", "m", "i", "n">>]

\* another one: not aggregated, other values, the tags in the other order
OtherArticle ==
  [title |-> <<"b", " ">>, content |-> <<"b">>, excerpt |-> <<"a">>, author |-> <<"b">>,
   category |-> Web, categoryName |-> <<"W", "e", "b">>, categoryColor |-> <<"#", "2", "2", "2">>,
   featuredImage |-> <<"j">>, publishedAt |-> <<"2">>, readTime |-> <<"2", "m">>,
   isAggregated |-> FALSE, sourceName |-> <<"t">>, sourceUrl |-> <<"v">>,
   tags |-> <<<<"y", Quote>>, <<"x">>>>, userId |-> <<"a", "d", "m", "i", "n">>]

\* every property given and falsy: '', false, no tag
FalsyArticle ==
  [f \in DOMAIN FullArticle |->
     CASE f = "isAggregated" -> FALSE [] f = "tags" -> <<>> [] OTHER -> <<>>]

\* the partial article that gives the properties in D only
Only(articleData, D) == [f \in D |-> articleData[f]]

CreateInputs == {FullArticle, OtherArticle, FalsyArticle, Only(FullArticle, {})}

UpdateInputs ==
  {Only(OtherArticle, {"title"}), OtherArticle, FalsyArticle,
   Only(FalsyArticle, {"isAggregated"}), Only(FullArticle, {})}

NoFilter == Only(FullArticle, {})

Aggregated == <<"a", "g", "g", "r", "e", "g", "a", "t", "e", "d">>

Original == <<"o", "r", "i", "g", "i", "n", "a", "l">>

\* the filters of the getArticles calls
CategoryFilters == {NoFilter} \cup {[category |-> c] : c \in {AllCategories, Ai, <<>>}}

SearchFilters ==
  {NoFilter} \cup {[search |-> x] : x \in {<<>>, <<" ">>, <<"a">>}}

AggregatedFilters == {NoFilter} \cup {[isAggregated |-> b] : b \in BOOLEAN}

LimitFilters == {NoFilter} \cup {[limit |-> n] : n \in 1..2}

\* with and without a limit, and without a limit also with an offset
ListFilters ==
  {c @@ x @@ a @@ n : c \in CategoryFilters, x \in SearchFilters, a \in AggregatedFilters,
                      n \in LimitFilters \cup {[offset |-> 1]}}

\* the few of them the calls between writes use
FewFilters == {NoFilter, [category |-> Ai, search |-> <<"a">>, isAggregated |-> TRUE, limit |-> 1]}

\* what the home page's URL parameters can hold
PageCategories == {AllCategories, Ai}

PageSearches == {<<>>, <<" ">>, <<"a">>, <<" ", "a">>}

PageTypes == {AllCategories, Aggregated, Original}

SeedId(r) == ArticlePrefix \o <<"0", "_">> \o RandomSuffix(r)

MissingId == ArticlePrefix \o <<"9", "_">> \o RandomSuffix(9)

\* the contents the store starts with: articles written by earlier sessions
InitStores ==
  {{}, {CreateRecord(FullArticle, SeedId(1), 0), CreateRecord(OtherArticle, SeedId(2), 0)}}

(***************************************************************************)
(* The state: the articles table of the store, the last reading of the     *)
(* clock, the shape of the                                                 *)
(* rows the store hands out, the writes made so far, the last call of the  *)
(* service that completed (last) and, when that call is a getArticleById   *)
(* and the call before it was a write, that write (prev); the state of the *)
(* create/edit form when one is mounted (form), of the home page (home)    *)
(* and of the article page (reader), and the editors that update articles  *)
(* at the same time (editors).                                             *)
(***************************************************************************)
VARIABLES articles, now, rowShape, writes, last, prev, form, home, reader, editors

vars == <<articles, now, rowShape, writes, last, prev, form, home, reader, editors>>

NoCall == [op |-> "none"]

\* no create/edit form is mounted
NoForm == [open |-> FALSE]

\* the home page is not mounted
NoHome == [open |-> FALSE]

\* the article page is not mounted
NoReader == [open |-> FALSE]

\* no editor is at work
NoEditors == <<>>

WriteOps == {"createArticle", "updateArticle", "deleteArticle"}

\* the record of a completed call: what it was given (args), the list query
\* (query) and the record or update data (sent) it handed to the store, whether
\* the store applied its write (wrote), whether every store call it made
\* succeeded (ok), the rows of the list response, its outcome (threw, ret) and
\* the table before the call
Call(op, args, query, sent, wrote, ok, rows, out, before) ==
  [op |-> op, args |-> args, query |-> query, sent |-> sent, wrote |-> wrote, ok |-> ok,
   rows |-> rows, threw |-> out.threw, ret |-> IF out.threw THEN Null ELSE out.val,
   before |-> before]

Carry == IF last.op \in WriteOps THEN last ELSE NoCall

\* the responses the store can give to a list call: a listing, or a failure
Responses(table, q) ==
  {[ok |-> TRUE, rows |-> rows] : rows \in ListResults(table, q, rowShape)}
    \cup {[ok |-> FALSE, rows |-> <<>>]}

\* the ids a page can ask for: those of the stored articles, those stored
\* before the last write, and one that was never stored
KnownIds ==
  {r.id : r \in articles}
    \cup (IF last.op \in WriteOps THEN {r.id : r \in last.before} ELSE {})
    \cup {MissingId}

Init ==
  /\ articles \in InitStores
  /\ now = 1
  /\ rowShape \in {"camel", "snake"}
  /\ writes = 0
  /\ last = NoCall
  /\ prev = NoCall
  /\ form = NoForm
  /\ home = NoHome
  /\ reader = NoReader
  /\ editors = NoEditors

\* the instants at which a call can read the clock: now is the last reading
Clock == now..MaxNow

\* HomePage.loadArticles: the filters it hands to getArticles
LoadArticlesFilters(category, search, type) ==
  (IF category # AllCategories THEN [category |-> category] ELSE NoFilter)
  @@ (IF Trim(search) # <<>> THEN [search |-> Trim(search)] ELSE NoFilter)
  @@ (IF type = Aggregated THEN [isAggregated |-> TRUE]
      ELSE IF type = Original THEN [isAggregated |-> FALSE] ELSE NoFilter)

GetArticles(filters) ==
  \E resp \in Responses(articles, GetArticlesQuery(filters)) :
    /\ last' = Call("getArticles", filters, GetArticlesQuery(filters), <<>>,
                    FALSE, resp.ok, resp.rows, GetArticlesOutcome(resp), articles)
    /\ prev' = NoCall
    /\ UNCHANGED <<articles, now, rowShape, writes, form, home, reader, editors>>

\* HomePage.loadArticles({category, search, type}): the getArticles call it makes
LoadArticles(category, search, type) ==
  LET filters == LoadArticlesFilters(category, search, type) IN
  \E resp \in Responses(articles, GetArticlesQuery(filters)) :
    /\ last' = Call("getArticles", filters, GetArticlesQuery(filters), <<>>,
                    FALSE, resp.ok, resp.rows, GetArticlesOutcome(resp), articles)
                 @@ [page |-> [category |-> category, search |-> search, type |-> type]]
    /\ prev' = NoCall
    /\ UNCHANGED <<articles, now, rowShape, writes, form, home, reader, editors>>

GetFeaturedArticle ==
  \E resp \in Responses(articles, GetFeaturedArticleQuery) :
    /\ last' = Call("getFeaturedArticle", <<>>, GetFeaturedArticleQuery, <<>>,
                    FALSE, resp.ok, resp.rows, GetFeaturedArticleOutcome(resp), articles)
    /\ prev' = NoCall
    /\ UNCHANGED <<articles, now, rowShape, writes, form, home, reader, editors>>

GetTrendingArticles(limit) ==
  \E resp \in Responses(articles, GetTrendingArticlesQuery(limit)) :
    /\ last' = Call("getTrendingArticles", [limit |-> limit], GetTrendingArticlesQuery(limit),
                    <<>>, FALSE, resp.ok, resp.rows, GetTrendingArticlesOutcome(resp), articles)
    /\ prev' = NoCall
    /\ UNCHANGED <<articles, now, rowShape, writes, form, home, reader, editors>>

GetRelatedArticles(articleId, category, limit) ==
  \E resp \in Responses(articles, GetRelatedArticlesQuery(articleId, category, limit)) :
    /\ last' = Call("getRelatedArticles",
                    [articleId |-> articleId, category |-> category, limit |-> limit],
                    GetRelatedArticlesQuery(articleId, category, limit),
                    <<>>, FALSE, resp.ok, resp.rows, GetRelatedArticlesOutcome(resp), articles)
    /\ prev' = NoCall
    /\ UNCHANGED <<articles, now, rowShape, writes, form, home, reader, editors>>

GetCategories ==
  \E resp \in {[ok |-> TRUE, rows |-> CategoryRows(rowShape)], [ok |-> FALSE, rows |-> <<>>]} :
    /\ last' = Call("getCategories", <<>>, <<>>, <<>>,
                    FALSE, resp.ok, resp.rows, GetCategoriesOutcome(resp), articles)
    /\ prev' = NoCall
    /\ UNCHANGED <<articles, now, rowShape, writes, form, home, reader, editors>>

GetArticleById(id) ==
  \E resp \in Responses(articles, GetArticleByIdQuery(id)) :
    /\ last' = Call("getArticleById", [id |-> id], GetArticleByIdQuery(id), <<>>,
                    FALSE, resp.ok, resp.rows, GetArticleByIdOutcome(resp), articles)
    /\ prev' = Carry
    /\ UNCHANGED <<articles, now, rowShape, writes, form, home, reader, editors>>

CreateArticle(articleData) ==
  \E t \in Clock, r \in 1..MaxRand, accepted \in BOOLEAN :
    LET rec == CreateRecord(articleData, NewId(t, r), t)
        ok == accepted /\ rec.id \notin {a.id : a \in articles}
        resp == [ok |-> ok, rows |-> IF ok THEN <<RowOut(rec, rowShape)>> ELSE <<>>]
    IN /\ writes < MaxWrites
       /\ writes' = writes + 1
       /\ articles' = IF ok THEN StoreCreate(articles, rec) ELSE articles
       /\ last' = Call("createArticle", articleData, <<>>, rec, ok, ok, resp.rows,
                       CreateArticleOutcome(resp), articles)
       /\ prev' = NoCall
       /\ now' = t
       /\ UNCHANGED <<rowShape, form, home, reader, editors>>

UpdateArticle(id, articleData) ==
  \E t \in Clock, updated \in BOOLEAN :
    LET data == UpdateData(articleData, t)
        after == IF updated THEN StoreUpdate(articles, id, data) ELSE articles
    IN \E resp \in Responses(after, GetArticleByIdQuery(id)) :
         /\ writes < MaxWrites
         /\ updated \/ ~resp.ok
         /\ writes' = writes + 1
         /\ articles' = after
         /\ last' = Call("updateArticle", [id |-> id, articleData |-> articleData],
                         GetArticleByIdQuery(id), data, updated, updated /\ resp.ok, resp.rows,
                         UpdateArticleOutcome(updated, resp), articles)
         /\ prev' = NoCall
         /\ now' = t
         /\ UNCHANGED <<rowShape, form, home, reader, editors>>

\* deleteArticle with a check that the article exists before it reports success
DeleteArticleChecked(id) ==
  \E deleted \in BOOLEAN :
    LET found == \E a \in articles : a.id = id IN
    /\ writes < MaxWrites
    /\ writes' = writes + 1
    /\ articles' = IF deleted THEN StoreDelete(articles, id) ELSE articles
    /\ last' = Call("deleteArticle", [id |-> id], <<>>, <<>>, deleted, deleted, <<>>,
                    DeleteArticleOutcome(deleted /\ found), articles)
    /\ prev' = NoCall
    /\ UNCHANGED <<now, rowShape, form, home, reader, editors>>

DeleteArticle(id) ==
  \E deleted \in BOOLEAN :
    /\ writes < MaxWrites
    /\ writes' = writes + 1
    /\ articles' = IF deleted THEN StoreDelete(articles, id) ELSE articles
    /\ last' = Call("deleteArticle", [id |-> id], <<>>, <<>>, deleted, deleted, <<>>,
                    DeleteArticleOutcome(deleted), articles)
    /\ prev' = NoCall
    /\ UNCHANGED <<now, rowShape, form, home, reader, editors>>

\* the home page and the article page read; the admin pages write
Next ==
  \/ \E filters \in FewFilters : GetArticles(filters)
  \/ GetFeaturedArticle
  \/ \E limit \in 1..2 : GetTrendingArticles(limit)
  \/ \E id \in KnownIds : GetRelatedArticles(id, Ai, 1)
  \/ GetCategories
  \/ \E id \in KnownIds : GetArticleById(id)
  \/ \E articleData \in CreateInputs : CreateArticle(articleData)
  \/ \E id \in KnownIds, articleData \in UpdateInputs : UpdateArticle(id, articleData)
  \/ \E id \in KnownIds : DeleteArticle(id)

Spec == Init /\ [][Next]_vars

(***************************************************************************)
(* The list operations alone, over the contents the store can have.        *)
(***************************************************************************)
ListStores ==
  LET s1 == CreateRecord(FullArticle, SeedId(1), 0)
      s2 == CreateRecord(OtherArticle, SeedId(2), 0)
      s3 == CreateRecord([OtherArticle EXCEPT !.category = Ai], SeedId(3), 0)
      s4 == CreateRecord(NoFilter, SeedId(4), 0)
  IN {{}, {s1}, {s1, s2}, {s1, s2, s3}, {s1, s2, s3, s4}}

InitList ==
  /\ articles \in ListStores
  /\ now = 1
  /\ rowShape \in {"camel", "snake"}
  /\ writes = 0
  /\ last = NoCall
  /\ prev = NoCall
  /\ form = NoForm
  /\ home = NoHome
  /\ reader = NoReader
  /\ editors = NoEditors

NextList ==
  \/ \E filters \in ListFilters : GetArticles(filters)
  \/ \E category \in PageCategories, search \in PageSearches, type \in PageTypes :
       LoadArticles(category, search, type)
  \/ GetFeaturedArticle
  \/ \E limit \in 1..3 : GetTrendingArticles(limit)
  \/ \E id \in KnownIds, category \in {Ai, Web}, limit \in 1..2 :
       GetRelatedArticles(id, category, limit)

SpecList == InitList /\ [][NextList]_vars

(***************************************************************************)
(* The tags alone: what createArticle writes for a tag sequence, and what  *)
(* parseTags makes of a stored tags value.                                 *)
(***************************************************************************)
\* the longest tag sequence
MaxTags == 3

TagChoices == {<<"x">>, <<"y", Quote>>, <<Backslash, ",">>, <<>>}

TagSequences == UNION {[1..n -> TagChoices] : n \in 0..MaxTags}

\* stored values that no createArticle writes: absent, empty, cut short,
\* not JSON, and JSON that is no array
OtherTagTexts ==
  {Undefined, <<>>, <<" ">>, <<"x">>, <<"[">>, <<"]">>, <<"[", Quote, "x", "]">>,
   <<"[", Quote, "x", Quote, ",", "]">>, <<"[", Quote, "x", Quote>>,
   <<"[", Quote, "x", Backslash, Quote, "]">>, <<"x", ",", "y">>,
   <<"n", "u", "l", "l">>, <<"{", "}">>, <<"5">>, <<"0">>, <<Quote, "x", Quote>>, <<Quote, Quote>>}

InitTags ==
  /\ articles = {}
  /\ now = 1
  /\ rowShape = "camel"
  /\ writes = 0
  /\ last = NoCall
  /\ prev = NoCall
  /\ form = NoForm
  /\ home = NoHome
  /\ reader = NoReader
  /\ editors = NoEditors

\* createArticle's JSON.stringify(articleData.tags), read back by parseTags
WriteTagsThenParse(tags) ==
  /\ last' = [op |-> "writeTags", args |-> tags, text |-> JSONStringify(tags),
              ret |-> ParseTags(JSONStringify(tags))]
  /\ UNCHANGED <<articles, now, rowShape, writes, prev, form, home, reader, editors>>

\* parseTags of a stored value
ParseStoredTags(text) ==
  /\ last' = [op |-> "parseTags", args |-> text, ret |-> ParseTags(text)]
  /\ UNCHANGED <<articles, now, rowShape, writes, prev, form, home, reader, editors>>

NextTags ==
  \/ \E tags \in TagSequences : WriteTagsThenParse(tags)
  \/ \E text \in OtherTagTexts : ParseStoredTags(text)

SpecTags == InitTags /\ [][NextTags]_vars

(***************************************************************************)
(* The create/edit form (CreatePost).  form holds the component's state    *)
(* while it is mounted: the id of the route (Undefined on the create       *)
(* route), the categories it has loaded, whether its getCategories and its *)
(* getArticleById are still pending, and formData.  last is the service    *)
(* call the last step made, NoCall when it made none.                      *)
(***************************************************************************)
\* useState({...}): the empty form
InitialFormData ==
  [title |-> <<>>, excerpt |-> <<>>, content |-> <<>>, author |-> <<>>, category |-> <<>>,
   featuredImage |-> <<>>, isAggregated |-> FALSE, sourceName |-> <<>>, sourceUrl |-> <<>>,
   tags |-> <<>>, readTime |-> <<>>]

\* the component as it mounts: categories [], loadCategories started, and on
\* the edit route loadArticle started with loading set
Mounted(id) ==
  [open |-> TRUE, id |-> id, categories |-> <<>>, categoriesPending |-> TRUE,
   loading |-> id # Undefined, formData |-> InitialFormData, newTag |-> <<>>]

\* loadArticle: the formData it sets from the article.  The tags of the
\* stored articles of the model are all serialized arrays.
FormDataOf(article) ==
  [title |-> article.title, excerpt |-> article.excerpt, content |-> article.content,
   author |-> article.author, category |-> article.category,
   featuredImage |-> article.featuredImage, isAggregated |-> article.isAggregated,
   sourceName |-> OrElse(article.sourceName, <<>>),
   sourceUrl |-> OrElse(article.sourceUrl, <<>>),
   tags |-> article.tags.val, readTime |-> article.readTime]

\* content.split(/\s+/).length: one more than the runs of spaces
RECURSIVE SplitCount(_)
SplitCount(s) ==
  IF s = <<>> THEN 1
  ELSE IF Head(s) = " " /\ (Tail(s) = <<>> \/ Head(Tail(s)) # " ") THEN 1 + SplitCount(Tail(s))
  ELSE SplitCount(Tail(s))

WordsPerMinute == 200

\* estimateReadTime(content); the contents of the model hold no markup
EstimateReadTime(content) ==
  <<ToString((SplitCount(content) + WordsPerMinute - 1) \div WordsPerMinute)>>
    \o <<" ", "m", "i", "n", " ", "r", "e", "a", "d">>

\* validateForm without the test of the author
ValidateFormNoAuthor(formData) ==
  /\ Truthy(Trim(formData.title))
  /\ Truthy(Trim(formData.excerpt))
  /\ Truthy(Trim(formData.content))
  /\ Truthy(formData.category)

\* validateForm
ValidateForm(formData) ==
  /\ Truthy(Trim(formData.title))
  /\ Truthy(Trim(formData.excerpt))
  /\ Truthy(Trim(formData.content))
  /\ Truthy(Trim(formData.author))
  /\ Truthy(formData.category)

AdminUserId == <<"a", "d", "m", "i", "n">>

\* categories.find(cat => cat.id === id): the matches, first one first
FindCategory(categories, id) ==
  LET hits == {i \in 1..Len(categories) : categories[i].id = id}
  IN IF hits = {} THEN <<>> ELSE <<categories[CHOOSE i \in hits : \A j \in hits : i <= j]>>

\* handleSave: the articleData it builds at instant t
SaveData(formData, categories, t) ==
  LET selectedCategory == FindCategory(categories, formData.category)
  IN [title |-> Trim(formData.title),
      excerpt |-> Trim(formData.excerpt),
      content |-> Trim(formData.content),
      author |-> Trim(formData.author),
      category |-> formData.category,
      categoryName |-> IF selectedCategory = <<>> THEN formData.category
                       ELSE OrElse(selectedCategory[1].name, formData.category),
      categoryColor |-> IF selectedCategory = <<>> THEN DefaultColor
                        ELSE OrElse(selectedCategory[1].color, DefaultColor),
      featuredImage |-> formData.featuredImage,
      isAggregated |-> formData.isAggregated,
      sourceName |-> IF formData.isAggregated THEN formData.sourceName ELSE Undefined,
      sourceUrl |-> IF formData.isAggregated THEN formData.sourceUrl ELSE Undefined,
      tags |-> formData.tags,
      readTime |-> OrElse(formData.readTime, EstimateReadTime(formData.content)),
      publishedAt |-> SplitT0(IsoString(t)),
      userId |-> AdminUserId]

\* the saves of one behaviour of the form; the form is used until the last of them
MaxSaves == 1

\* the route /admin/create (id Undefined) or /admin/edit/:id is entered
Mount(id) ==
  /\ ~form.open
  /\ writes < MaxSaves
  /\ form' = Mounted(id)
  /\ last' = NoCall
  /\ prev' = NoCall
  /\ UNCHANGED <<articles, now, rowShape, writes, home, reader, editors>>

\* the admin leaves the form
Unmount ==
  /\ form.open
  /\ writes < MaxSaves
  /\ form' = NoForm
  /\ last' = NoCall
  /\ prev' = NoCall
  /\ UNCHANGED <<articles, now, rowShape, writes, home, reader, editors>>

\* loadCategories: its getCategories call completes
LoadCategories ==
  /\ form.open
  /\ form.categoriesPending
  /\ writes < MaxSaves
  /\ \E resp \in {[ok |-> TRUE, rows |-> CategoryRows(rowShape)], [ok |-> FALSE, rows |-> <<>>]} :
       form' = [form EXCEPT !.categories = GetCategoriesOutcome(resp).val,
                            !.categoriesPending = FALSE]
  /\ last' = NoCall
  /\ prev' = NoCall
  /\ UNCHANGED <<articles, now, rowShape, writes, home, reader, editors>>

\* loadArticle: its getArticleById call completes
LoadArticle ==
  /\ form.open
  /\ form.loading
  /\ writes < MaxSaves
  /\ \E resp \in Responses(articles, GetArticleByIdQuery(form.id)) :
       LET article == GetArticleByIdOutcome(resp).val
       IN form' = [form EXCEPT !.loading = FALSE,
                               !.formData = IF article # Null THEN FormDataOf(article) ELSE @]
  /\ last' = NoCall
  /\ prev' = NoCall
  /\ UNCHANGED <<articles, now, rowShape, writes, home, reader, editors>>

\* handleInputChange(field, value); the form is not rendered while loading,
\* and the category select offers the ids of the categories loaded
HandleInputChange(field, value) ==
  /\ form.open
  /\ ~form.loading
  /\ writes < MaxSaves
  /\ field = "category" => \E i \in 1..Len(form.categories) : form.categories[i].id = value
  /\ form' = [form EXCEPT !.formData[field] = value]
  /\ last' = NoCall
  /\ prev' = NoCall
  /\ UNCHANGED <<articles, now, rowShape, writes, home, reader, editors>>

\* the Add tag input changes: setNewTag(e.target.value)
SetNewTag(value) ==
  /\ form.open
  /\ ~form.loading
  /\ form' = [form EXCEPT !.newTag = value]
  /\ last' = NoCall
  /\ prev' = NoCall
  /\ UNCHANGED <<articles, now, rowShape, writes, home, reader, editors>>

\* tags.includes(tag)
Includes(tags, tag) == \E i \in 1..Len(tags) : tags[i] = tag

\* addTag without the test that the tag is not in the list yet
AddTagAgain ==
  /\ form.open
  /\ ~form.loading
  /\ form' = IF Truthy(Trim(form.newTag))
             THEN [form EXCEPT !.formData.tags = Append(@, Trim(form.newTag)), !.newTag = <<>>]
             ELSE form
  /\ last' = [op |-> "addTag", newTag |-> form.newTag, before |-> form.formData.tags]
  /\ prev' = NoCall
  /\ UNCHANGED <<articles, now, rowShape, writes, home, reader, editors>>

\* addTag()
AddTag ==
  /\ form.open
  /\ ~form.loading
  /\ form' = IF Truthy(Trim(form.newTag)) /\ ~Includes(form.formData.tags, Trim(form.newTag))
             THEN [form EXCEPT !.formData.tags = Append(@, Trim(form.newTag)), !.newTag = <<>>]
             ELSE form
  /\ last' = [op |-> "addTag", newTag |-> form.newTag, before |-> form.formData.tags]
  /\ prev' = NoCall
  /\ UNCHANGED <<articles, now, rowShape, writes, home, reader, editors>>

\* removeTag(tagToRemove), from the X of a tag on display
RemoveTag(tagToRemove) ==
  /\ form.open
  /\ ~form.loading
  /\ Includes(form.formData.tags, tagToRemove)
  /\ form' = [form EXCEPT !.formData.tags = SelectSeq(@, LAMBDA tag : tag # tagToRemove)]
  /\ last' = [op |-> "removeTag", arg |-> tagToRemove, before |-> form.formData.tags]
  /\ prev' = NoCall
  /\ UNCHANGED <<articles, now, rowShape, writes, home, reader, editors>>

\* the record of a handleSave: the service call it made if any (call), what
\* the form held, and the record of that call
Saved(call, record) ==
  record @@ [valid |-> call # "none", call |-> call, formData |-> form.formData,
             categories |-> form.categories, before |-> articles]

\* handleSave: nothing but the alert when validateForm fails; otherwise
\* updateArticle on the edit route and createArticle on the create route,
\* and navigate('/admin') when the result is not null
HandleSave ==
  /\ form.open
  /\ ~form.loading
  /\ writes < MaxSaves
  /\ prev' = NoCall
  /\ UNCHANGED <<rowShape, home, reader, editors>>
  /\ \/ /\ ~ValidateForm(form.formData)
        /\ last' = Saved("none", [op |-> "handleSave"])
        /\ UNCHANGED <<articles, now, writes, form>>
     \/ /\ ValidateForm(form.formData)
        /\ form.id # Undefined
        /\ \E t \in Clock, updated \in BOOLEAN :
             LET articleData == SaveData(form.formData, form.categories, t)
                 data == UpdateData(articleData, t)
                 after == IF updated THEN StoreUpdate(articles, form.id, data) ELSE articles
             IN \E resp \in Responses(after, GetArticleByIdQuery(form.id)) :
                  /\ updated \/ ~resp.ok
                  /\ articles' = after
                  /\ now' = t
                  /\ last' = Saved("updateArticle",
                                   Call("handleSave", [id |-> form.id, articleData |-> articleData],
                                        GetArticleByIdQuery(form.id), data, updated,
                                        updated /\ resp.ok, resp.rows,
                                        UpdateArticleOutcome(updated, resp), articles))
                  /\ form' = IF UpdateArticleOutcome(updated, resp).val # Null THEN NoForm ELSE form
        /\ writes' = writes + 1
     \/ /\ ValidateForm(form.formData)
        /\ form.id = Undefined
        /\ \E t \in Clock, r \in 1..MaxRand, accepted \in BOOLEAN :
             LET articleData == SaveData(form.formData, form.categories, t)
                 rec == CreateRecord(articleData, NewId(t, r), t)
                 ok == accepted /\ rec.id \notin {a.id : a \in articles}
                 resp == [ok |-> ok, rows |-> IF ok THEN <<RowOut(rec, rowShape)>> ELSE <<>>]
             IN /\ articles' = IF ok THEN StoreCreate(articles, rec) ELSE articles
                /\ now' = t
                /\ last' = Saved("createArticle",
                                 Call("handleSave", [articleData |-> articleData], <<>>, rec,
                                      ok, ok, resp.rows, CreateArticleOutcome(resp), articles))
                /\ form' = IF CreateArticleOutcome(resp).val # Null THEN NoForm ELSE form
        /\ writes' = writes + 1

\* what the admin types and picks
FormTexts == {<<>>, <<" ">>, <<" ", "a">>}

FormIds == {Undefined} \cup KnownIds

InitForm ==
  /\ articles \in InitStores
  /\ now = 1
  /\ rowShape \in {"camel", "snake"}
  /\ writes = 0
  /\ last = NoCall
  /\ prev = NoCall
  /\ form = NoForm
  /\ home = NoHome
  /\ reader = NoReader
  /\ editors = NoEditors

NextForm ==
  \/ \E id \in FormIds : Mount(id)
  \/ Unmount
  \/ LoadCategories
  \/ LoadArticle
  \/ \E field \in {"title", "excerpt", "content", "author"}, value \in FormTexts :
       HandleInputChange(field, value)
  \/ \E value \in {Ai, Web} : HandleInputChange("category", value)
  \/ \E value \in BOOLEAN : HandleInputChange("isAggregated", value)
  \/ HandleSave

SpecForm == InitForm /\ [][NextForm]_vars

(***************************************************************************)
(* The tag list of the create form.                                        *)
(***************************************************************************)
\* what the admin types into the Add tag input
NewTags == {<<>>, <<" ">>, <<"x">>, <<" ", "x">>, <<"x", " ">>, <<"y">>, <<"z", " ", "z">>}

NextTagList ==
  \/ Mount(Undefined)
  \/ \E value \in NewTags : SetNewTag(value)
  \/ AddTag
  \/ \E tagToRemove \in {Trim(value) : value \in NewTags} : RemoveTag(tagToRemove)

SpecTagList == InitForm /\ [][NextTagList]_vars

(***************************************************************************)
(* The home page (HomePage).  home holds the component's state while it is *)
(* mounted: the URL's search parameters, the view state the effects set,   *)
(* the reads of loadInitialData that are still pending with the results of *)
(* those that completed, and the getArticles calls in flight (loads), each *)
(* numbered in the order of the calls.  requested is the filters of the    *)
(* newest call and shown the number of the call whose response was put on  *)
(* display last.                                                           *)
(***************************************************************************)
\* the loadArticles (home page) and loadArticle (article page) calls of one page
MaxLoads == 3

\* URLSearchParams: set and delete
SetParam(searchParams, key, value) ==
  [k \in DOMAIN searchParams \cup {key} |-> IF k = key THEN value ELSE searchParams[k]]

DeleteParam(searchParams, key) == [k \in DOMAIN searchParams \ {key} |-> searchParams[k]]

\* handleSearch with a new URLSearchParams() in place of the copy of the current ones
HandleSearchParamsFresh(searchParams, query) ==
  IF Truthy(Trim(query)) THEN SetParam(NoFilter, "search", Trim(query))
  ELSE DeleteParam(NoFilter, "search")

\* handleSearch(query): the parameters it sets
HandleSearchParams(searchParams, query) ==
  IF Truthy(Trim(query)) THEN SetParam(searchParams, "search", Trim(query))
  ELSE DeleteParam(searchParams, "search")

\* handleCategoryChange(category)
HandleCategoryChangeParams(searchParams, category) ==
  IF category # AllCategories THEN SetParam(searchParams, "category", category)
  ELSE DeleteParam(searchParams, "category")

\* handleTypeFilter(type)
HandleTypeFilterParams(searchParams, type) ==
  IF type # AllCategories THEN SetParam(searchParams, "type", type)
  ELSE DeleteParam(searchParams, "type")

InitialReads == {"categories", "featured", "trending"}

\* the effect on searchParams: the view state it sets and the loadArticles
\* call it makes, which calls getArticles before its first await
ParamsEffect(h) ==
  LET category == OrElse(Prop(h.searchParams, "category"), AllCategories)
      search == OrElse(Prop(h.searchParams, "search"), <<>>)
      type == OrElse(Prop(h.searchParams, "type"), AllCategories)
  IN [h EXCEPT !.selectedCategory = category, !.searchQuery = search, !.filterType = type,
               !.issued = @ + 1,
               !.requested = LoadArticlesFilters(category, search, type),
               !.loads = @ \cup {[seq |-> h.issued + 1,
                                  filters |-> LoadArticlesFilters(category, search, type)]}]

\* the component as it mounts on a URL: its useState values, then both effects
\* (loadInitialData sets loading and makes its three calls; the effect on
\* searchParams)
MountedHome(searchParams) ==
  ParamsEffect([open |-> TRUE, searchParams |-> searchParams, articles |-> <<>>,
                featuredArticle |-> Null, trendingArticles |-> <<>>, categories |-> <<>>,
                loading |-> TRUE,
                searchQuery |-> OrElse(Prop(searchParams, "search"), <<>>),
                selectedCategory |-> OrElse(Prop(searchParams, "category"), AllCategories),
                filterType |-> OrElse(Prop(searchParams, "type"), AllCategories),
                pending |-> InitialReads, results |-> NoFilter,
                loads |-> {}, issued |-> 0, requested |-> NoFilter, shown |-> 0])

\* the route / is entered with the given search parameters
OpenHome(searchParams) ==
  /\ ~home.open
  /\ home' = MountedHome(searchParams)
  /\ reader' = NoReader
  /\ last' = NoCall
  /\ prev' = NoCall
  /\ UNCHANGED <<articles, now, rowShape, writes, form, editors>>

\* Promise.all of the reads still pending: fulfilled when none is
AllSettledAny(pending) == pending # InitialReads

AllSettled(pending) == pending = {}

\* the responses to one read of loadInitialData, each with the value the
\* service makes of it; for the trending read also the rows the store returned
InitialReadResults(read) ==
  CASE read = "categories" ->
         {[categories |-> GetCategoriesOutcome(resp).val] :
            resp \in {[ok |-> TRUE, rows |-> CategoryRows(rowShape)], [ok |-> FALSE, rows |-> <<>>]}}
    [] read = "featured" ->
         {[featured |-> GetFeaturedArticleOutcome(resp).val] :
            resp \in Responses(articles, GetFeaturedArticleQuery)}
    [] read = "trending" ->
         {[trending |-> GetTrendingArticlesOutcome(resp).val, trendingRows |-> resp.rows] :
            resp \in Responses(articles, GetTrendingArticlesQuery(3))}

\* loadInitialData: one of its three reads completes; when Promise.all is
\* fulfilled the three results are set and loading is cleared
CompleteInitialRead(read) ==
  /\ home.open
  /\ read \in home.pending
  /\ \E result \in InitialReadResults(read) :
       LET results == home.results @@ result
           pending == home.pending \ {read}
       IN home' = IF home.loading /\ AllSettled(pending)
                  THEN [home EXCEPT !.pending = pending, !.results = results,
                                    !.categories = Prop(results, "categories"),
                                    !.featuredArticle = Prop(results, "featured"),
                                    !.trendingArticles = Prop(results, "trending"),
                                    !.loading = FALSE]
                  ELSE [home EXCEPT !.pending = pending, !.results = results]
  /\ last' = NoCall
  /\ prev' = NoCall
  /\ UNCHANGED <<articles, now, rowShape, writes, form, reader, editors>>

\* setSearchParams(newParams) of a handler; the page is not rendered while
\* loading.  The effect on searchParams runs when the parameters changed, and
\* may run when they are the same.
ChangeParams(op, arg, newParams) ==
  /\ home.open
  /\ ~home.loading
  /\ home.issued < MaxLoads
  /\ \E rerun \in BOOLEAN :
       /\ newParams # home.searchParams => rerun
       /\ home' = IF rerun THEN ParamsEffect([home EXCEPT !.searchParams = newParams]) ELSE home
  /\ last' = [op |-> op, arg |-> arg, before |-> home.searchParams]
  /\ prev' = NoCall
  /\ UNCHANGED <<articles, now, rowShape, writes, form, reader, editors>>

HandleSearch(query) ==
  ChangeParams("handleSearch", query, HandleSearchParams(home.searchParams, query))

HandleCategoryChange(category) ==
  ChangeParams("handleCategoryChange", category,
               HandleCategoryChangeParams(home.searchParams, category))

HandleTypeFilter(type) ==
  ChangeParams("handleTypeFilter", type, HandleTypeFilterParams(home.searchParams, type))

\* a response that is put on display only when it is that of the newest call
CompleteLoadArticlesNewestOnly(load) ==
  /\ home.open
  /\ load \in home.loads
  /\ \E resp \in Responses(articles, GetArticlesQuery(load.filters)) :
       /\ home' = IF load.seq = home.issued
                  THEN [home EXCEPT !.loads = @ \ {load},
                                    !.articles = GetArticlesOutcome(resp).val,
                                    !.shown = load.seq]
                  ELSE [home EXCEPT !.loads = @ \ {load}]
       /\ last' = [op |-> "loadArticles", seq |-> load.seq, filters |-> load.filters,
                   ret |-> GetArticlesOutcome(resp).val]
  /\ prev' = NoCall
  /\ UNCHANGED <<articles, now, rowShape, writes, form, reader, editors>>

\* loadArticles: the response to its getArticles call arrives and is set
CompleteLoadArticles(load) ==
  /\ home.open
  /\ load \in home.loads
  /\ \E resp \in Responses(articles, GetArticlesQuery(load.filters)) :
       /\ home' = [home EXCEPT !.loads = @ \ {load},
                               !.articles = GetArticlesOutcome(resp).val,
                               !.shown = load.seq]
       /\ last' = [op |-> "loadArticles", seq |-> load.seq, filters |-> load.filters,
                   ret |-> GetArticlesOutcome(resp).val]
  /\ prev' = NoCall
  /\ UNCHANGED <<articles, now, rowShape, writes, form, reader, editors>>

(***************************************************************************)
(* The article page (ArticlePage).  reader holds the component's state     *)
(* while it is mounted: the id of the route, the article and the related   *)
(* articles on display, loading, error, and the loadArticle calls in       *)
(* flight, each at its getArticleById or at its getRelatedArticles.        *)
(***************************************************************************)
NotFound == <<"A", "r", "t", "i", "c", "l", "e", " ", "n", "o", "t", " ", "f", "o", "u", "n", "d">>

\* the effect on id: loadArticle(id) up to its first await
LoadArticleEffect(r) ==
  [r EXCEPT !.loading = TRUE, !.error = Undefined, !.issued = @ + 1,
            !.loads = @ \cup {[seq |-> r.issued + 1, id |-> r.id, stage |-> "article",
                               category |-> Undefined]}]

MountedReader(id) ==
  LoadArticleEffect([open |-> TRUE, id |-> id, article |-> Null, relatedArticles |-> <<>>,
                     loading |-> TRUE, error |-> Undefined, loads |-> {}, issued |-> 0,
                     shown |-> 0])

\* the route /article/:id is entered
OpenArticle(id) ==
  /\ ~reader.open
  /\ reader' = MountedReader(id)
  /\ home' = NoHome
  /\ last' = NoCall
  /\ prev' = NoCall
  /\ UNCHANGED <<articles, now, rowShape, writes, form, editors>>

\* the id of the route changes while the page stays mounted
ChangeArticle(id) ==
  /\ reader.open
  /\ id # reader.id
  /\ reader.issued < MaxLoads
  /\ reader' = LoadArticleEffect([reader EXCEPT !.id = id])
  /\ last' = NoCall
  /\ prev' = NoCall
  /\ UNCHANGED <<articles, now, rowShape, writes, form, home, editors>>

\* loadArticle: the response to its getArticleById arrives; on an article it
\* goes on to call getRelatedArticles
CompleteGetArticleById(load) ==
  /\ reader.open
  /\ load \in reader.loads
  /\ load.stage = "article"
  /\ \E resp \in Responses(articles, GetArticleByIdQuery(load.id)) :
       LET articleData == GetArticleByIdOutcome(resp).val
       IN /\ reader' = IF articleData = Null
                       THEN [reader EXCEPT !.loads = @ \ {load}, !.error = NotFound,
                                           !.loading = FALSE]
                       ELSE [reader EXCEPT !.article = articleData, !.shown = load.seq,
                                           !.loads = (@ \ {load}) \cup
                                             {[load EXCEPT !.stage = "related",
                                                           !.category = articleData.category]}]
          /\ last' = [op |-> "loadArticle", seq |-> load.seq, id |-> load.id,
                      ret |-> articleData]
  /\ prev' = NoCall
  /\ UNCHANGED <<articles, now, rowShape, writes, form, home, editors>>

\* loadArticle: the response to its getRelatedArticles arrives
CompleteGetRelatedArticles(load) ==
  /\ reader.open
  /\ load \in reader.loads
  /\ load.stage = "related"
  /\ \E resp \in Responses(articles, GetRelatedArticlesQuery(load.id, load.category, 3)) :
       reader' = [reader EXCEPT !.loads = @ \ {load},
                                !.relatedArticles = GetRelatedArticlesOutcome(resp).val,
                                !.loading = FALSE]
  /\ last' = NoCall
  /\ prev' = NoCall
  /\ UNCHANGED <<articles, now, rowShape, writes, form, home, editors>>

\* the URLs the home page is entered with, and what its handlers are given
HomeUrls ==
  {NoFilter, [category |-> Ai], [search |-> <<" ">>],
   [category |-> AllCategories, type |-> Original]}

HomeQueries == {<<>>, <<" ">>, <<" ", "a">>, AllCategories}

InitPages ==
  /\ articles \in InitStores
  /\ now = 1
  /\ rowShape \in {"camel", "snake"}
  /\ writes = 0
  /\ last = NoCall
  /\ prev = NoCall
  /\ form = NoForm
  /\ home = NoHome
  /\ reader = NoReader
  /\ editors = NoEditors

NextPages ==
  \/ \E searchParams \in HomeUrls : OpenHome(searchParams)
  \/ \E read \in InitialReads : CompleteInitialRead(read)
  \/ \E query \in HomeQueries : HandleSearch(query)
  \/ \E category \in PageCategories : HandleCategoryChange(category)
  \/ \E type \in PageTypes : HandleTypeFilter(type)
  \/ \E load \in (IF home.open THEN home.loads ELSE {}) : CompleteLoadArticles(load)
  \/ \E id \in KnownIds : OpenArticle(id)
  \/ \E id \in KnownIds : ChangeArticle(id)
  \/ \E load \in (IF reader.open THEN reader.loads ELSE {}) : CompleteGetArticleById(load)
  \/ \E load \in (IF reader.open THEN reader.loads ELSE {}) : CompleteGetRelatedArticles(load)

SpecPages == InitPages /\ [][NextPages]_vars

(***************************************************************************)
(* Two editors, each with the edit form of the same article open in a      *)
(* browser of their own.  An updateArticle call is two remote calls, the   *)
(* update and the list of its getArticleById; the calls of the two editors *)
(* reach the store in any order.  For each editor: where they are (pc),    *)
(* the form's data, the number of writes the store had applied when the    *)
(* form was loaded (seen), the updateData sent (data), whether the store   *)
(* accepted the update, the place of it among the writes (turn) and the    *)
(* result of the call.                                                     *)
(***************************************************************************)
Editors == 1..2

EditedId == SeedId(1)

IdleEditor ==
  [pc |-> "idle", formData |-> InitialFormData, seen |-> 0, data |-> NoFilter,
   accepted |-> FALSE, turn |-> 0, result |-> Null]

\* loadArticle of the editor's form: its getArticleById call completes
EditorLoad(e) ==
  /\ editors[e].pc = "idle"
  /\ \E resp \in Responses(articles, GetArticleByIdQuery(EditedId)) :
       LET article == GetArticleByIdOutcome(resp).val
       IN editors' = IF article = Null THEN editors
                     ELSE [editors EXCEPT ![e].pc = "loaded",
                                          ![e].formData = FormDataOf(article),
                                          ![e].seen = writes]
  /\ last' = NoCall
  /\ prev' = NoCall
  /\ UNCHANGED <<articles, now, rowShape, writes, form, home, reader>>

\* handleInputChange(field, value) in the editor's form
EditorChange(e, field, value) ==
  /\ editors[e].pc = "loaded"
  /\ editors' = [editors EXCEPT ![e].formData[field] = value]
  /\ last' = NoCall
  /\ prev' = NoCall
  /\ UNCHANGED <<articles, now, rowShape, writes, form, home, reader>>

\* an update the store applies only when the article is as the editor loaded it
EditorUpdateVersioned(e) ==
  /\ editors[e].pc = "loaded"
  /\ ValidateForm(editors[e].formData)
  /\ \E t \in Clock, updated \in BOOLEAN :
       LET articleData == SaveData(editors[e].formData, CategoryRows(rowShape), t)
           data == UpdateData(articleData, t)
       IN /\ articles' = IF updated /\ editors[e].seen = writes
                         THEN StoreUpdate(articles, EditedId, data) ELSE articles
          /\ editors' = [editors EXCEPT ![e].pc = IF updated THEN "written" ELSE "done",
                                        ![e].data = data, ![e].accepted = updated,
                                        ![e].turn = IF updated THEN writes + 1 ELSE 0]
          /\ writes' = IF updated THEN writes + 1 ELSE writes
          /\ now' = t
  /\ last' = NoCall
  /\ prev' = NoCall
  /\ UNCHANGED <<rowShape, form, home, reader>>

\* handleSave of the editor's form up to the first remote call of its
\* updateArticle: the update reaches the store, which applies it or fails
EditorUpdate(e) ==
  /\ editors[e].pc = "loaded"
  /\ ValidateForm(editors[e].formData)
  /\ \E t \in Clock, updated \in BOOLEAN :
       LET articleData == SaveData(editors[e].formData, CategoryRows(rowShape), t)
           data == UpdateData(articleData, t)
       IN /\ articles' = IF updated THEN StoreUpdate(articles, EditedId, data) ELSE articles
          /\ editors' = [editors EXCEPT ![e].pc = IF updated THEN "written" ELSE "done",
                                        ![e].data = data, ![e].accepted = updated,
                                        ![e].turn = IF updated THEN writes + 1 ELSE 0]
          /\ writes' = IF updated THEN writes + 1 ELSE writes
          /\ now' = t
  /\ last' = NoCall
  /\ prev' = NoCall
  /\ UNCHANGED <<rowShape, form, home, reader>>

\* the getArticleById of the editor's updateArticle completes
EditorReread(e) ==
  /\ editors[e].pc = "written"
  /\ \E resp \in Responses(articles, GetArticleByIdQuery(EditedId)) :
       editors' = [editors EXCEPT ![e].pc = "done",
                                  ![e].result = UpdateArticleOutcome(TRUE, resp).val]
  /\ last' = NoCall
  /\ prev' = NoCall
  /\ UNCHANGED <<articles, now, rowShape, writes, form, home, reader>>

\* what the editors type
EditorTexts == {<<"c">>, <<"d">>}

InitEditors ==
  /\ articles = {CreateRecord(FullArticle, SeedId(1), 0), CreateRecord(OtherArticle, SeedId(2), 0)}
  /\ now = 1
  /\ rowShape \in {"camel", "snake"}
  /\ writes = 0
  /\ last = NoCall
  /\ prev = NoCall
  /\ form = NoForm
  /\ home = NoHome
  /\ reader = NoReader
  /\ editors = [e \in Editors |-> IdleEditor]

NextEditors ==
  \/ \E e \in Editors : EditorLoad(e)
  \/ \E e \in Editors, field \in {"title", "excerpt"}, value \in EditorTexts :
       EditorChange(e, field, value)
  \/ \E e \in Editors : EditorUpdate(e)
  \/ \E e \in Editors : EditorReread(e)

SpecEditors == InitEditors /\ [][NextEditors]_vars

(***************************************************************************)
(* The home page's initial load alone, while other clients write to the    *)
(* store.  Each of the three reads gets its response: the remote call      *)
(* returns or fails, and the service turns a failure into its default.     *)
(***************************************************************************)
\* the empty store, and one whose two articles have the same publishedAt
InitialStores ==
  {{}, {CreateRecord(OtherArticle, SeedId(2), 0),
        CreateRecord([OtherArticle EXCEPT !.category = Ai], SeedId(3), 0)}}

InitInitial ==
  /\ articles \in InitialStores
  /\ now = 1
  /\ rowShape \in {"camel", "snake"}
  /\ writes = 0
  /\ last = NoCall
  /\ prev = NoCall
  /\ form = NoForm
  /\ home = NoHome
  /\ reader = NoReader
  /\ editors = NoEditors

\* the page's own steps
NextReads ==
  \/ \E searchParams \in HomeUrls : OpenHome(searchParams)
  \/ \E read \in InitialReads : CompleteInitialRead(read)
  \/ \E load \in (IF home.open THEN home.loads ELSE {}) : CompleteLoadArticles(load)

NextInitial ==
  \/ OpenHome(NoFilter)
  \/ \E read \in InitialReads : CompleteInitialRead(read)
  \/ \E load \in (IF home.open THEN home.loads ELSE {}) : CompleteLoadArticles(load)
  \/ CreateArticle(OtherArticle)
  \/ \E id \in KnownIds : DeleteArticle(id)

SpecInitial == InitInitial /\ [][NextInitial]_vars

SpecInitialLive ==
  /\ InitInitial
  /\ [][NextReads]_vars
  /\ WF_vars(\E read \in InitialReads : CompleteInitialRead(read))

(***************************************************************************)
(* updateArticle with partials that name the properties it does not copy.  *)
(***************************************************************************)
\* a partial that gives a title and another id, userId and createdAt
KeysGiven ==
  Only(OtherArticle, {"title"})
    @@ [id |-> MissingId, userId |-> <<"u">>, createdAt |-> <<"9">>]

FrameInputs == UpdateInputs \cup {KeysGiven}

NextFrame ==
  \/ \E id \in KnownIds, articleData \in FrameInputs : UpdateArticle(id, articleData)
  \/ \E id \in KnownIds : GetArticleById(id)

SpecFrame == Init /\ [][NextFrame]_vars

(***************************************************************************)
(* Properties.                                                             *)
(***************************************************************************)
ListOps == {"getArticles", "getTrendingArticles", "getRelatedArticles", "getCategories"}

\* what getArticleById makes of a stored article
Normalized(rec) == TransformArticle("service", RowOut(rec, rowShape)).val

\* the stored article with the given id in a table that has one
Stored(table, id) == CHOOSE a \in table : a.id = id

HasId(table, id) == \E a \in table : a.id = id

\* C1: no operation of the data service throws to its caller, and a call
\* whose store call failed returns the operation's safe default: the empty
\* sequence from the list operations, false from deleteArticle, null from
\* the others.
C1_FailSoft ==
  last.op # "none" =>
    /\ ~last.threw
    /\ ~last.ok =>
         CASE last.op \in ListOps -> last.ret = <<>>
           [] last.op = "deleteArticle" -> last.ret = FALSE
           [] OTHER -> last.ret = Null

C1_Witness == last.op = "deleteArticle" /\ ~last.ok /\ ~last.threw /\ last.ret = FALSE

\* the article that createArticle's input is after default-filling: the record
\* handed to the store, with the flag as a boolean and the tags as a sequence
DefaultFilled(articleData, sent) ==
  [f \in ArticleFields |->
     CASE f = "isAggregated" -> "isAggregated" \in DOMAIN articleData /\ articleData.isAggregated
       [] f = "tags" -> JArray(IF "tags" \in DOMAIN articleData THEN articleData.tags ELSE <<>>)
       [] OTHER -> sent[f]]

\* a getArticleById of the new id that directly follows a successful createArticle
CreateThenGet ==
  /\ last.op = "getArticleById"
  /\ prev.op = "createArticle"
  /\ prev.wrote
  /\ last.ok
  /\ last.args.id = prev.sent.id

\* C3: getArticleById of the new id, directly after a successful
\* createArticle(p), returns a record whose every field equals p after
\* default-filling, the tags as the same sequence.
C3_CreateThenGet == CreateThenGet => last.ret = DefaultFilled(prev.args, prev.sent)

\* a getArticleById(id) that directly follows a successful
\* updateArticle(id, {title: X}) of an existing article, X not empty
TitleUpdateThenGet ==
  /\ last.op = "getArticleById"
  /\ prev.op = "updateArticle"
  /\ DOMAIN prev.args.articleData = {"title"}
  /\ prev.args.articleData.title # <<>>
  /\ prev.wrote
  /\ last.ok
  /\ last.args.id = prev.args.id
  /\ HasId(prev.before, prev.args.id)

\* the fields in F read after the update as they read before it, and are
\* stored as they were
SameAsBefore(F) ==
  \A f \in F :
    /\ last.ret[f] = Normalized(Stored(prev.before, prev.args.id))[f]
    /\ Stored(articles, prev.args.id)[f] = Stored(prev.before, prev.args.id)[f]

\* C4 as stated: after updateArticle(id, {title: X}), getArticleById(id) shows
\* title X and every other field with the value it had before the update.
C4_Original ==
  TitleUpdateThenGet =>
    /\ last.ret.title = prev.args.articleData.title
    /\ SameAsBefore(ArticleFields \ {"title"})

\* C4 amended: after updateArticle(id, {title: X}), getArticleById(id) shows
\* title X, updatedAt set to the time of the update, and every field other
\* than title and updatedAt with the value it had before the update.
C4_TitleUpdateFrame ==
  TitleUpdateThenGet =>
    /\ last.ret.title = prev.args.articleData.title
    /\ last.ret.updatedAt = prev.sent.updatedAt
    /\ SameAsBefore(ArticleFields \ {"title", "updatedAt"})

C4_Witness ==
  /\ TitleUpdateThenGet
  /\ last.ret.title # Normalized(Stored(prev.before, prev.args.id)).title
  /\ last.ret.updatedAt # Normalized(Stored(prev.before, prev.args.id)).updatedAt

\* C5: getArticleById(id) directly after a deleteArticle(id) that returned
\* true yields null.
C5_DeleteThenGet ==
  (/\ last.op = "getArticleById"
   /\ prev.op = "deleteArticle"
   /\ prev.ret = TRUE
   /\ last.args.id = prev.args.id) => last.ret = Null

C5_Witness ==
  /\ last.op = "getArticleById"
  /\ prev.op = "deleteArticle"
  /\ prev.ret = TRUE
  /\ last.args.id = prev.args.id
  /\ HasId(prev.before, prev.args.id)
  /\ last.ok
  /\ last.ret = Null

\* the flag string of a row, under either of its names
RowFlag(row) == OrElse(Prop(row, "isAggregated"), Prop(row, "is_aggregated"))

\* the filters give a category to restrict to
CategoryGiven(filters) ==
  Truthy(Prop(filters, "category")) /\ filters.category # AllCategories

LimitOf(filters) == IF "limit" \in DOMAIN filters THEN filters.limit ELSE DefaultLimit

\* C2: getArticles returns at most limit records and every one of them has
\* the category asked for (one other than "all") and the isAggregated asked
\* for; the same holds of the rows its query selects in the store, whose
\* flag string is "1" for true and "0" for false.
C2_ListRespectsFilters ==
  last.op = "getArticles" =>
    LET filters == last.args IN
    /\ Len(last.ret) <= LimitOf(filters)
    /\ \A i \in 1..Len(last.ret) :
         /\ CategoryGiven(filters) => last.ret[i].category = filters.category
         /\ "isAggregated" \in DOMAIN filters => last.ret[i].isAggregated = filters.isAggregated
    /\ Len(last.rows) <= LimitOf(filters)
    /\ \A i \in 1..Len(last.rows) :
         /\ CategoryGiven(filters) => last.rows[i].category = filters.category
         /\ "isAggregated" \in DOMAIN filters =>
              RowFlag(last.rows[i]) = IF filters.isAggregated THEN <<"1">> ELSE <<"0">>

C2_Witness ==
  /\ last.op = "getArticles"
  /\ last.ok
  /\ CategoryGiven(last.args)
  /\ "isAggregated" \in DOMAIN last.args
  /\ ~last.args.isAggregated
  /\ "limit" \in DOMAIN last.args
  /\ Len(last.rows) = last.args.limit
  /\ \E a \in articles : a.isAggregated = <<"1">> /\ a.category = last.args.category
  /\ \E a \in articles : a.isAggregated = <<"0">> /\ a.category # last.args.category

\* the records are in the order of publishedAt, latest first
LatestFirst(records) ==
  \A i \in 1..(Len(records) - 1) :
    DateRank(records[i].publishedAt) >= DateRank(records[i + 1].publishedAt)

\* the stored articles that are not among the records
Omitted(records) == {a \in articles : \A i \in 1..Len(records) : records[i].id # a.id}

\* C6: on a store of n articles getTrendingArticles(L) returns exactly
\* min(L, max(n - 1, 0)) records: stored articles, latest first, without one
\* that is at least as recent as each of them, and ahead of every other
\* article left out.
C6_Trending ==
  (last.op = "getTrendingArticles" /\ last.ok) =>
    /\ Len(last.ret) = Min(last.args.limit, Max(Cardinality(articles) - 1, 0))
    /\ LatestFirst(last.ret)
    /\ \A i \in 1..Len(last.ret) : HasId(articles, last.ret[i].id)
    /\ Len(last.ret) > 0 =>
         \E top \in Omitted(last.ret) :
           /\ \A i \in 1..Len(last.ret) :
                DateRank(top.publishedAt) >= DateRank(last.ret[i].publishedAt)
           /\ \A a \in Omitted(last.ret) \ {top} :
                DateRank(a.publishedAt) <= DateRank(last.ret[Len(last.ret)].publishedAt)

\* C8: getArticles without filters returns min(n, 20) records of a store of n
\* articles, latest publishedAt first, and no article left out is later than
\* one returned.
C8_NoFilters ==
  (last.op = "getArticles" /\ DOMAIN last.args = {} /\ last.ok) =>
    /\ Len(last.ret) = Min(Cardinality(articles), DefaultLimit)
    /\ LatestFirst(last.ret)
    /\ \A a \in Omitted(last.ret) : \A i \in 1..Len(last.ret) :
         DateRank(a.publishedAt) <= DateRank(last.ret[i].publishedAt)

\* the where clause holds a search predicate
HasSearch(where) == \E i \in 1..Len(where) : where[i].op = "OR"

\* the form of the search predicate: title, excerpt, author or the serialized
\* tags contain the text; and every row selected satisfies it together with
\* the category and the aggregated predicate
SearchForm(text) ==
  /\ \E i \in 1..Len(last.query.where) : last.query.where[i] = SearchCondition(text)
  /\ \A i \in 1..Len(last.rows) :
       /\ \/ Contains(last.rows[i].title, text)
          \/ Contains(last.rows[i].excerpt, text)
          \/ Contains(last.rows[i].author, text)
          \/ Contains(last.rows[i].tags, text)
       /\ CategoryGiven(last.args) => last.rows[i].category = last.args.category
       /\ "isAggregated" \in DOMAIN last.args =>
            RowFlag(last.rows[i]) = IF last.args.isAggregated THEN <<"1">> ELSE <<"0">>

\* C9 as stated: getArticles adds the search predicate exactly when the
\* search string is not empty after trimming, and then in the form above.
C9_Original ==
  last.op = "getArticles" =>
    /\ HasSearch(last.query.where) <=>
         ("search" \in DOMAIN last.args /\ Trim(last.args.search) # <<>>)
    /\ HasSearch(last.query.where) => SearchForm(last.args.search)

\* C9 amended: getArticles adds the search predicate exactly when the search
\* string it is given is not empty (it does not trim), and then in the form
\* above; HomePage.loadArticles hands it the trimmed search text, and none
\* when that is empty, so that a search of blanks from the page restricts
\* nothing.
C9_SearchPredicate ==
  last.op = "getArticles" =>
    /\ HasSearch(last.query.where) <=>
         ("search" \in DOMAIN last.args /\ last.args.search # <<>>)
    /\ HasSearch(last.query.where) => SearchForm(last.args.search)
    /\ "page" \in DOMAIN last =>
         /\ HasSearch(last.query.where) <=> Trim(last.page.search) # <<>>
         /\ HasSearch(last.query.where) => last.args.search = Trim(last.page.search)

C9_Witness ==
  /\ last.op = "getArticles"
  /\ "page" \notin DOMAIN last
  /\ "search" \in DOMAIN last.args
  /\ last.args.search = <<" ">>
  /\ HasSearch(last.query.where)
  /\ CategoryGiven(last.args)
  /\ "isAggregated" \in DOMAIN last.args
  /\ last.ok
  /\ Len(last.rows) > 0

\* the value given for a property is '' or false
FalsyGiven(articleData, f) ==
  CASE f = "isAggregated" -> articleData[f] = FALSE
    [] f = "tags" -> FALSE
    [] OTHER -> articleData[f] = <<>>

\* the update left property f of the article as it was stored
Untouched(f) ==
  /\ f \notin DOMAIN last.sent
  /\ HasId(last.before, last.args.id) =>
       Stored(articles, last.args.id)[f] = Stored(last.before, last.args.id)[f]

\* C10 as stated: updateArticle drops every property given as '' or false
\* from the write, and its stored value is unchanged.
C10_Original ==
  last.op = "updateArticle" =>
    \A f \in DOMAIN last.args.articleData :
      FalsyGiven(last.args.articleData, f) => Untouched(f)

\* C10 amended: updateArticle writes a string property only when its value
\* is truthy, an empty string is dropped and the stored value unchanged;
\* isAggregated is written whenever it is given as a boolean, false as "0".
C10_FalsyDropped ==
  last.op = "updateArticle" =>
    /\ \A f \in DOMAIN last.args.articleData \ {"isAggregated", "tags"} :
         /\ FalsyGiven(last.args.articleData, f) => Untouched(f)
         /\ f \in DOMAIN last.sent => last.sent[f] = last.args.articleData[f]
    /\ "isAggregated" \in DOMAIN last.args.articleData =>
         /\ "isAggregated" \in DOMAIN last.sent
         /\ last.sent.isAggregated = IF last.args.articleData.isAggregated THEN <<"1">> ELSE <<"0">>
         /\ (last.wrote /\ HasId(last.before, last.args.id)) =>
              Stored(articles, last.args.id).isAggregated = last.sent.isAggregated

C10_Witness ==
  /\ last.op = "updateArticle"
  /\ last.wrote
  /\ last.args.articleData = FalsyArticle
  /\ HasId(last.before, last.args.id)
  /\ Stored(last.before, last.args.id).isAggregated = <<"1">>
  /\ Stored(articles, last.args.id).isAggregated = <<"0">>
  /\ Stored(articles, last.args.id).title = Stored(last.before, last.args.id).title
  /\ Stored(articles, last.args.id).title # <<>>

\* the text is what JSON.stringify writes for some sequence of tags
IsTagsText(text) ==
  /\ text # Undefined
  /\ JSONParse(text).kind = "array"
  /\ JSONStringify(JSONParse(text).val) = text

\* C7: parsing the serialized form of a tag sequence yields the sequence
\* again, and parseTags of a stored value that is no serialized tag sequence
\* yields the empty sequence.
C7_TagsRoundTrip ==
  /\ last.op = "writeTags" => last.ret = JArray(last.args)
  /\ (last.op = "parseTags" /\ ~IsTagsText(last.args)) => last.ret = JArray(<<>>)

\* C11: getFeaturedArticle returns the normalized record of a stored article
\* whose publishedAt no stored article exceeds, and it returns null exactly
\* when the store is empty or the list call fails.
C11_Featured ==
  last.op = "getFeaturedArticle" =>
    /\ (last.ret = Null) <=> (articles = {} \/ ~last.ok)
    /\ last.ret # Null =>
         \E a \in articles :
           /\ last.ret = Normalized(a)
           /\ \A b \in articles : DateRank(b.publishedAt) <= DateRank(a.publishedAt)

C11_Witness ==
  /\ last.op = "getFeaturedArticle"
  /\ last.ok
  /\ last.ret # Null
  /\ \E b \in articles : DateRank(b.publishedAt) < DateRank(last.ret.publishedAt)

\* the stored articles of the category other than the one excluded
RelatedTo(articleId, category) ==
  {a \in articles : a.category = category /\ a.id # articleId}

\* C12: getRelatedArticles(excludeId, category, limit) returns min(k, limit)
\* records, k the number of stored articles of the category other than
\* excludeId; each has the category and another id, latest publishedAt first.
C12_Related ==
  (last.op = "getRelatedArticles" /\ last.ok) =>
    /\ Len(last.ret) =
         Min(Cardinality(RelatedTo(last.args.articleId, last.args.category)), last.args.limit)
    /\ \A i \in 1..Len(last.ret) :
         /\ last.ret[i].category = last.args.category
         /\ last.ret[i].id # last.args.articleId
    /\ LatestFirst(last.ret)

\* C13: getArticleById(id) returns null when no stored article has the id,
\* and the normalized record of the stored article with that id when there
\* is one and the list call succeeds; a record it returns is never that of
\* another id.
C13_GetById ==
  last.op = "getArticleById" =>
    /\ ~HasId(articles, last.args.id) => last.ret = Null
    /\ (HasId(articles, last.args.id) /\ last.ok) =>
         last.ret = Normalized(Stored(articles, last.args.id))
    /\ last.ret # Null =>
         /\ last.ret.id = last.args.id
         /\ HasId(articles, last.args.id)
         /\ last.ret = Normalized(Stored(articles, last.args.id))

C13_Witness ==
  /\ last.op = "getArticleById"
  /\ last.ok
  /\ last.ret # Null
  /\ \E a \in articles : a.id # last.args.id

\* the properties createArticle writes as '' when they are omitted
EmptyDefaults ==
  {"title", "content", "excerpt", "author", "category", "categoryName", "featuredImage"}

\* C14: the record createArticle writes has, for every property the caller
\* omitted, the default: '' for title, content, excerpt, author, category,
\* categoryName and featuredImage, "#2563eb" for categoryColor, the date of
\* the day for publishedAt, "5 min read" for readTime, "[]" for tags and "0"
\* for isAggregated; createdAt and updatedAt are the instant of the call; the
\* result is the normalized form of the written record, or null when the
\* write failed.
C14_CreateDefaults ==
  last.op = "createArticle" =>
    /\ \A f \in EmptyDefaults \ DOMAIN last.args : last.sent[f] = <<>>
    /\ "categoryColor" \notin DOMAIN last.args =>
         last.sent.categoryColor = <<"#", "2", "5", "6", "3", "e", "b">>
    /\ "publishedAt" \notin DOMAIN last.args =>
         last.sent.publishedAt = <<ToString((now + 1) \div 2)>>
    /\ "readTime" \notin DOMAIN last.args =>
         last.sent.readTime = <<"5", " ", "m", "i", "n", " ", "r", "e", "a", "d">>
    /\ "tags" \notin DOMAIN last.args => last.sent.tags = <<"[", "]">>
    /\ ("isAggregated" \notin DOMAIN last.args \/ ~last.args.isAggregated) =>
         last.sent.isAggregated = <<"0">>
    /\ last.sent.createdAt = IsoString(now)
    /\ last.sent.updatedAt = IsoString(now)
    /\ last.wrote => (last.sent \in articles /\ last.ret = Normalized(last.sent))
    /\ ~last.wrote => (last.ret = Null /\ articles = last.before)

C14_Witness ==
  /\ last.op = "createArticle"
  /\ DOMAIN last.args = {}
  /\ last.wrote
  /\ last.ret # Null

\* C15: every updateArticle(id, p) writes updatedAt, the instant of the call,
\* also when p is empty; its result is what getArticleById(id) yields after
\* the write: the normalized record of the stored article, or null when the
\* write or the read failed or no article has the id.
C15_UpdateRereads ==
  last.op = "updateArticle" =>
    /\ "updatedAt" \in DOMAIN last.sent
    /\ last.sent.updatedAt = IsoString(now)
    /\ (last.wrote /\ HasId(articles, last.args.id)) =>
         Stored(articles, last.args.id).updatedAt = IsoString(now)
    /\ ~last.wrote => articles = last.before
    /\ last.ret = IF last.ok /\ HasId(articles, last.args.id)
                  THEN Normalized(Stored(articles, last.args.id))
                  ELSE Null

C15_Witness ==
  /\ last.op = "updateArticle"
  /\ DOMAIN last.args.articleData = {}
  /\ last.ok
  /\ last.ret # Null
  /\ Stored(last.before, last.args.id).updatedAt # last.ret.updatedAt

\* C16: deleteArticle(id) returns true when the store's delete call completes
\* and false when it fails, whether or not an article has the id: it makes no
\* list call; after a false result the table is as it was before.
C16_DeleteResult ==
  last.op = "deleteArticle" =>
    /\ last.ret = last.wrote
    /\ last.query = <<>>
    /\ ~last.ret => articles = last.before
    /\ last.ret => articles = {a \in last.before : a.id # last.args.id}

C16_Witness ==
  /\ last.op = "deleteArticle"
  /\ ~HasId(last.before, last.args.id)
  /\ last.ret

\* the id of the article a save of the form wrote
SavedId == IF last.call = "createArticle" THEN last.sent.id ELSE last.args.id

\* C17: after every save of the form that wrote an article, the article's
\* categoryName and categoryColor are the name and color of the category with
\* the article's category id, whether or not the form has loaded the categories.
C17_CategoryCopy ==
  (last.op = "handleSave" /\ last.valid /\ last.wrote) =>
    \A a \in articles :
      a.id = SavedId =>
        \A i \in 1..Len(CategoryRows(rowShape)) :
          CategoryRows(rowShape)[i].id = a.category =>
            /\ a.categoryName = CategoryRows(rowShape)[i].name
            /\ a.categoryColor = CategoryRows(rowShape)[i].color

\* a required text is empty after trimming, or no category is selected
Incomplete(formData) ==
  \/ \E f \in {"title", "excerpt", "content", "author"} : Trim(formData[f]) = <<>>
  \/ formData.category = <<>>

\* C18: handleSave on a form in which a required text is empty after trimming
\* or no category is selected makes no createArticle and no updateArticle
\* call, and the table is as it was.
C18_ValidationBlocks ==
  (last.op = "handleSave" /\ Incomplete(last.formData)) =>
    /\ last.call = "none"
    /\ articles = last.before

C18_Witness ==
  /\ last.op = "handleSave"
  /\ last.call = "none"
  /\ Trim(last.formData.author) = <<>>
  /\ Trim(last.formData.title) # <<>>
  /\ Trim(last.formData.excerpt) # <<>>
  /\ Trim(last.formData.content) # <<>>
  /\ last.formData.category # <<>>

\* C19: no two stored articles share an id, and the id a createArticle call
\* generates is never the id of an article already stored.
C19_UniqueIds ==
  /\ \A a, b \in articles : a.id = b.id => a = b
  /\ last.op = "createArticle" => ~HasId(last.before, last.sent.id)

\* the filters without their offset
WithoutOffset(filters) == Only(filters, DOMAIN filters \ {"offset"})

\* C20: the list call getArticles makes carries no offset and is the call it
\* makes for the same filters without the offset, so the rows it gets are rows
\* the store can return for those, none skipped, and its result is what it
\* makes of them.
C20_OffsetIgnored ==
  last.op = "getArticles" =>
    /\ "offset" \notin DOMAIN last.query
    /\ last.query = [where |-> WhereConditions(WithoutOffset(last.args)),
                     orderBy |-> "publishedAt desc",
                     limit |-> LimitOf(WithoutOffset(last.args))]
    /\ last.ok =>
         last.rows \in ListResults(articles,
                                   [where |-> WhereConditions(WithoutOffset(last.args)),
                                    orderBy |-> "publishedAt desc",
                                    limit |-> LimitOf(WithoutOffset(last.args))],
                                   rowShape)
    /\ last.ret = GetArticlesOutcome([ok |-> last.ok, rows |-> last.rows]).val

C20_Witness ==
  /\ last.op = "getArticles"
  /\ "offset" \in DOMAIN last.args
  /\ last.args.offset > 0
  /\ last.ok
  /\ Len(last.rows) = Cardinality(articles)
  /\ Cardinality(articles) >= 2

\* C21: the response to every getArticles call of the home page is put on
\* display when it arrives, also when newer calls have been made since, and
\* so is the article of every getArticleById response of the article page,
\* also when the page is on another id by then.
C21_StaleResponses ==
  /\ last.op = "loadArticles" => (home.shown = last.seq /\ home.articles = last.ret)
  /\ (last.op = "loadArticle" /\ last.ret # Null) =>
       (reader.shown = last.seq /\ reader.article = last.ret)

\* the two responses arrived in the opposite order: the older call's is on display
C21_Witness ==
  /\ last.op = "loadArticles"
  /\ home.loads = {}
  /\ home.shown < home.issued
  /\ last.filters # home.requested

\* the article page shows the article of an id it has left
StaleArticleShown ==
  /\ reader.open
  /\ reader.loads = {}
  /\ reader.article # Null
  /\ reader.article.id # reader.id

\* C22: every update the store accepted is applied, whatever the other
\* editor did: the stored article has, for each property an accepted update
\* wrote, the value of the last accepted update that wrote it.
C22_LastWriteWins ==
  (editors # NoEditors) =>
    /\ writes = Cardinality({e \in Editors : editors[e].accepted})
    /\ \A e \in Editors :
         editors[e].accepted =>
           \A f \in DOMAIN editors[e].data :
             (\A d \in Editors :
                (editors[d].accepted /\ editors[d].turn > editors[e].turn) =>
                  f \notin DOMAIN editors[d].data)
               => Stored(articles, EditedId)[f] = editors[e].data[f]

\* the lost update: an editor retitled the article, and the other, who had
\* loaded it before that update, saved after it; the new title is gone
C22_Witness ==
  /\ editors # NoEditors
  /\ \E e, d \in Editors :
       /\ editors[e].accepted
       /\ editors[d].accepted
       /\ editors[d].seen < editors[e].turn
       /\ editors[e].turn < editors[d].turn
       /\ editors[e].data.title = <<"c">>
       /\ Stored(articles, EditedId).title # <<"c">>

\* C23: once the home page has loaded, the featured article is not in the
\* trending list, and the row getTrendingArticles skipped is the article
\* getFeaturedArticle returned.
C23_FeaturedNotTrending ==
  (home.open /\ ~home.loading /\ home.featuredArticle # Null) =>
    /\ \A i \in 1..Len(home.trendingArticles) :
         home.trendingArticles[i].id # home.featuredArticle.id
    /\ home.results.trendingRows # <<>> =>
         Prop(home.results.trendingRows[1], "id") = home.featuredArticle.id

\* C24: the three reads of the initial load are made together; the home page
\* is loading exactly while one of them is pending, whatever the order in
\* which they complete, and has the three results when it stops loading; and
\* a home page that is loading stops loading, whatever the outcomes of the reads.
C24_InitialLoad ==
  /\ [](home.open =>
          /\ home.loading <=> (home.pending # {})
          /\ DOMAIN home.results \cap InitialReads = InitialReads \ home.pending
          /\ ~home.loading =>
               /\ home.categories = home.results.categories
               /\ home.featuredArticle = home.results.featured
               /\ home.trendingArticles = home.results.trending)
  /\ (home.open /\ home.loading) ~> (home.open /\ ~home.loading)

\* loaded with a failed read among the three
C24_Witness ==
  /\ home.open
  /\ ~home.loading
  /\ articles # {}
  /\ home.featuredArticle = Null
  /\ home.categories # <<>>

\* C25: after every save of the form that wrote an article with isAggregated
\* true, the stored article has a non-empty sourceName and sourceUrl.
C25_SourcePresent ==
  (last.op = "handleSave" /\ last.valid /\ last.wrote /\ last.args.articleData.isAggregated) =>
    \A a \in articles :
      a.id = SavedId => (Truthy(a.sourceName) /\ Truthy(a.sourceUrl))

\* C26: after every save of the form that wrote an article, the stored
\* article has a sourceName or a sourceUrl only when its isAggregated is "1";
\* so it has none after a save with isAggregated false.
C26_SourceOnlyIfAggregated ==
  (last.op = "handleSave" /\ last.valid /\ last.wrote) =>
    \A a \in articles :
      a.id = SavedId =>
        (a.isAggregated = <<"1">> \/ (~Truthy(a.sourceName) /\ ~Truthy(a.sourceUrl)))

\* the rows of the store's answer that the last list operation maps
MappedRows == IF last.op = "getTrendingArticles" THEN Slice1(last.rows) ELSE last.rows

\* C27: getArticles, getTrendingArticles and getRelatedArticles yield, for
\* every row they map, the record getArticleById yields for that row, so a
\* non-empty sequence of rows is never turned into an empty result.
C27_SameNormalization ==
  (last.op \in {"getArticles", "getTrendingArticles", "getRelatedArticles"} /\ last.ok) =>
    /\ Len(last.ret) = Len(MappedRows)
    /\ \A i \in 1..Len(last.ret) :
         last.ret[i] = TransformArticle("service", MappedRows[i]).val

\* C28: updateArticle(id, partial) leaves the id, userId and createdAt of the
\* article with the id as they were, whatever the partial gives for them, adds
\* no article and leaves every other article as it was.
C28_UpdateFrame ==
  last.op = "updateArticle" =>
    /\ {a.id : a \in articles} = {a.id : a \in last.before}
    /\ Cardinality(articles) = Cardinality(last.before)
    /\ \A a \in last.before : a.id # last.args.id => a \in articles
    /\ \A a \in articles :
         a.id = last.args.id =>
           /\ a.userId = Stored(last.before, a.id).userId
           /\ a.createdAt = Stored(last.before, a.id).createdAt

C28_Witness ==
  /\ last.op = "updateArticle"
  /\ last.wrote
  /\ Cardinality(articles) = 2
  /\ HasId(last.before, last.args.id)
  /\ DOMAIN last.args.articleData = DOMAIN KeysGiven
  /\ last.args.articleData.userId # Stored(last.before, last.args.id).userId
  /\ last.args.articleData.createdAt # Stored(last.before, last.args.id).createdAt
  /\ Stored(articles, last.args.id).title = last.args.articleData.title
  /\ Stored(articles, last.args.id).title # Stored(last.before, last.args.id).title

HandlerParam ==
  [handleSearch |-> "search", handleCategoryChange |-> "category", handleTypeFilter |-> "type"]

\* the filters that a URL's search parameters stand for
EncodedFilters(searchParams) ==
  [f \in (IF "category" \in DOMAIN searchParams
             /\ searchParams.category \notin {<<>>, AllCategories}
          THEN {"category"} ELSE {})
         \cup (IF "search" \in DOMAIN searchParams /\ Trim(searchParams.search) # <<>>
               THEN {"search"} ELSE {})
         \cup (IF "type" \in DOMAIN searchParams /\ searchParams.type \in {Aggregated, Original}
               THEN {"isAggregated"} ELSE {})
   |-> CASE f = "category" -> searchParams.category
         [] f = "search" -> Trim(searchParams.search)
         [] OTHER -> searchParams.type = Aggregated]

C30_TagList ==
  (form.open /\ form.id = Undefined) =>
    LET tags == form.formData.tags IN
    /\ \A i, j \in 1..Len(tags) : tags[i] = tags[j] => i = j
    /\ \A i \in 1..Len(tags) : Trim(tags[i]) # <<>>
    /\ last.op = "addTag" =>
         LET tag == Trim(last.newTag) IN
         tags = IF tag # <<>> /\ \A i \in 1..Len(last.before) : last.before[i] # tag
                THEN last.before \o <<tag>>
                ELSE last.before
    /\ last.op = "removeTag" =>
         /\ \A i \in 1..Len(tags) : tags[i] # last.arg
         /\ \E k \in 1..Len(last.before) :
              /\ last.before[k] = last.arg
              /\ tags = SubSeq(last.before, 1, k - 1)
                          \o SubSeq(last.before, k + 1, Len(last.before))

C30_Witness ==
  /\ form.open
  /\ form.id = Undefined
  /\ last.op = "removeTag"
  /\ Len(last.before) = 3
  /\ last.arg = last.before[2]
  /\ form.formData.tags = <<last.before[1], last.before[3]>>
  /\ \E i \in 1..3 : Len(last.before[i]) = 3
====
